---- MODULE Spec2Model ----
(***************************************************************************)
(* BlackMirror: a Recorder that logs the interaction of a program with a   *)
(* callback based API, and a Checker that replays the log against a        *)
(* program.  The model follows black-mirror.js: the value codec, the log   *)
(* events, Recorder.wrapMethod / wrapCallback / checker, and               *)
(* Checker.wrapMethod / scheduleWake / done.                               *)
(*                                                                         *)
(* JS values are records.  A primitive carries the field js (its typeof),  *)
(* a JSON object carries _type, an instance of one of the classes of the   *)
(* source carries type (the field the constructor sets).  Indices stored   *)
(* in events (callback_from, from_api_message) are 0-based as in the       *)
(* source; sequences are 1-based.                                          *)
(***************************************************************************)
EXTENDS Integers, Sequences, FiniteSets, TLC

VARIABLES
  phase,          \* "record", "replay", "finished" (done() was called), "failed" (an error was raised)
  prog,           \* the program under test: main body and the body of its callbacks
  api,            \* the live API: what each method fires and returns
  scheduler,      \* what the Checker's scheduler.setTimeout returns: "handle" or "void"
  stack,          \* the JS call stack, innermost frame last
  log,            \* Recorder.log
  callbacks,      \* Recorder.callbacks
  timers,         \* callbacks the live API deferred with setTimeout
  serialLog,      \* Checker.serialLog, the residual Log
  runMessageLog,  \* Checker.runMessageLog
  next,           \* Checker.next
  tasks,          \* thunks the Checker handed to scheduler.setTimeout and not yet run
  raised,         \* message of the error that ended the replay, "" if none
  source,         \* history: the event list handed to the Checker constructor
  consumed,       \* history: number of events shifted from serialLog
  attempts,       \* history: every checkedMethod invocation with the head it met
  cbTrace,        \* history: every callback the Checker invoked
  retTrace,       \* history: every value a checkedMethod returned
  deviation,      \* history: how the replay departs from the recording
  doneResult,     \* history: outcome of done()
  real,           \* history: what the real API and the real callbacks saw while recording
  runs            \* history: the replays made before the current one

vars == <<phase, prog, api, scheduler, stack, log, callbacks, timers,
          serialLog, runMessageLog, next, tasks, raised, source, consumed,
          attempts, cbTrace, retTrace, deviation, doneResult, real, runs>>

(***************************************************************************)
(* Bounds and input sets                                                   *)
(***************************************************************************)
MaxMain == 2
MaxLog == 5
MaxIndex == 2

Names == {"hello", "bye"}

\* the list of methods the Recorder is made with
Methods == <<"hello", "bye">>
Vals == {"a", "b"}
FnIds == {1, 2}

(***************************************************************************)
(* JS values                                                               *)
(***************************************************************************)
Undefined == [js |-> "undefined"]
Null == [js |-> "null"]
Str(v) == [js |-> "string", v |-> v]
Fn(f) == [js |-> "function", f |-> f]

typeof(x) == IF "js" \in DOMAIN x THEN (IF x.js = "null" THEN "object" ELSE x.js) ELSE "object"

IsInstance(x, t) == "type" \in DOMAIN x /\ x.type = t
HasType(json, t) == "_type" \in DOMAIN json /\ json._type = t

Ok(v) == [ok |-> TRUE, val |-> v]
Throw(msg) == [ok |-> FALSE, err |-> msg]

Min(S) == CHOOSE m \in S : \A n \in S : m <= n
Max(S) == CHOOSE m \in S : \A n \in S : m >= n

\* apimessages[i] of a JS array: undefined outside the array
At(arr, i) == IF i >= 0 /\ i < Len(arr) THEN arr[i + 1] ELSE Undefined

(***************************************************************************)
(* Constructors                                                            *)
(***************************************************************************)
Closure(fn) == [type |-> "closure", fn |-> fn]

Arguments(deserializedArgs) ==
  [type |-> "arguments",
   args |-> [i \in 1..Len(deserializedArgs) |->
               IF typeof(deserializedArgs[i]) = "function"
               THEN Closure(deserializedArgs[i].f)
               ELSE deserializedArgs[i]]]

ApiMessage(name, args, oid) ==
  [type |-> "api_message", name |-> name, args |-> args, oid |-> oid]

ClosureCall(closure, args) ==
  [type |-> "closure_call", closure |-> closure, args |-> args]

ReturnValue(value) == [type |-> "return_value", value |-> value]

ApiMessageReturn(apimessage, val) ==
  [type |-> "api_message_return", value |-> val, apimessage |-> apimessage]

ArgumentsClosures(self) ==
  SelectSeq(self.args, LAMBDA a : IsInstance(a, "closure"))

ArgumentsRaw(self) ==
  [i \in 1..Len(self.args) |->
     IF IsInstance(self.args[i], "closure") THEN Fn(self.args[i].fn) ELSE self.args[i]]

ApiMessageClosure(self) ==
  LET cs == ArgumentsClosures(self.args)
  IN  IF cs = <<>> THEN Null ELSE cs[1]

(***************************************************************************)
(* Type checks                                                             *)
(***************************************************************************)
\* tc(v, c): passes iff v instanceof c
tc(v, c) == IsInstance(v, c)

\* jt(json, type): passes iff json._type === type
jt(json, type) == HasType(json, type)

\* arrToBuf(hex): the ArrayBuffer a Uint8Array fills with the elements of hex
arrToBuf(hex) ==
  [type |-> "ArrayBuffer", bytes |-> [i \in 1..Len(hex) |-> hex[i] % 256]]

\* variant: only the first byte is read
bufToArrFirst(bin) ==
  IF ~tc(bin, "ArrayBuffer") THEN Throw("not of type ArrayBuffer")
  ELSE Ok(SubSeq(bin.bytes, 1, 1))

\* bufToArr(bin): the array of the bytes of bin
bufToArr(bin) ==
  IF ~tc(bin, "ArrayBuffer") THEN Throw("not of type ArrayBuffer")
  ELSE Ok(bin.bytes)

\* the JSON of an ArrayBuffer
IsWrapped(json) == HasType(json, "wrapped_js_object")

\* assert.equal on the values of the model: == of two primitives, and of an
\* object with a primitive string (the object converts to "[object Object]")
LooseEq(a, b) ==
  IF typeof(a) = "object" /\ a # Null /\ typeof(b) = "object" /\ b # Null THEN a = b
  ELSE IF a \in {Undefined, Null} \/ b \in {Undefined, Null}
       THEN a \in {Undefined, Null} /\ b \in {Undefined, Null}
       ELSE IF typeof(a) = "object" \/ typeof(b) = "object" THEN FALSE
       ELSE a = b

\* assert.deepEqual: == unless both are objects, then structural
DeepEq(a, b) ==
  IF typeof(a) = "object" /\ a # Null /\ typeof(b) = "object" /\ b # Null
  THEN a = b
  ELSE LooseEq(a, b)

(***************************************************************************)
(* serialize                                                               *)
(***************************************************************************)
\* variant: the index of the last Call that has the function
ClosureSerializeLast(self, apimessages) ==
  LET hits == {i \in 0..(Len(apimessages) - 1) :
                 LET c == ApiMessageClosure(apimessages[i + 1])
                 IN  IsInstance(c, "closure") /\ c.fn = self.fn}
  IN  IF hits = {}
      THEN Throw("Closure callback not found in API messages")
      ELSE Ok([_type |-> "closure", callback_from |-> Max(hits)])

ClosureSerialize(self, apimessages) ==
  LET hits == {i \in 0..(Len(apimessages) - 1) :
                 LET c == ApiMessageClosure(apimessages[i + 1])
                 IN  IsInstance(c, "closure") /\ c.fn = self.fn}
  IN  IF hits = {}
      THEN Throw("Closure callback not found in API messages")
      ELSE Ok([_type |-> "closure", callback_from |-> Min(hits)])

\* the object has a property k (a property of null cannot be read)
Has(o, k) == typeof(o) = "object" /\ o # Null /\ k \in DOMAIN o

\* {k: rs[k].val} of the results rs, or the first failure among them
Collect(rs) ==
  IF \E k \in DOMAIN rs : ~rs[k].ok
  THEN rs[CHOOSE k \in DOMAIN rs : ~rs[k].ok]
  ELSE Ok([k \in DOMAIN rs |-> rs[k].val])

RECURSIVE JSWrappedObjectSerialize(_, _)
JSWrappedObjectSerialize(apimessages, value) ==
  IF IsInstance(value, "ArrayBuffer")
  THEN Ok([_type |-> "wrapped_js_object", wrapped_type |-> "ArrayBuffer",
           value |-> bufToArr(value).val])
  ELSE IF value = Null THEN Throw("TypeError")
  ELSE IF Has(value, "data") /\ IsInstance(value.data, "ArrayBuffer")
  THEN Collect([k \in DOMAIN value |-> JSWrappedObjectSerialize(apimessages, value[k])])
  ELSE IF IsInstance(value, "closure") THEN ClosureSerialize(value, apimessages)
  ELSE Ok(value)

ArgumentsSerialize(self, apimessages) ==
  LET rs == [i \in 1..Len(self.args) |-> JSWrappedObjectSerialize(apimessages, self.args[i])]
      bad == {i \in 1..Len(self.args) : ~rs[i].ok}
  IN  IF bad # {} THEN Throw(rs[Min(bad)].err)
      ELSE Ok([_type |-> "arguments", args |-> [i \in 1..Len(self.args) |-> rs[i].val]])

ApiMessageSerialize(self, apimessages) ==
  LET a == ArgumentsSerialize(self.args, apimessages)
  IN  IF ~a.ok THEN a
      ELSE Ok([_type |-> "api_message", args |-> a.val, name |-> self.name])

ClosureCallSerialize(self, apimessages) ==
  LET c == ClosureSerialize(self.closure, apimessages)
      a == ArgumentsSerialize(self.args, apimessages)
  IN  IF ~c.ok THEN c
      ELSE IF ~a.ok THEN a
      ELSE Ok([_type |-> "closure_call", closure |-> c.val, args |-> a.val])

ReturnValueSerialize(self) == [_type |-> "return_value", value |-> self.value]

\* variant: the CallReturn is given the index of the last Call recorded
ApiMessageReturnSerializeLast(self, apimessages) ==
  IF apimessages = <<>> THEN Throw("Returning a non-called apimessage")
  ELSE Ok([_type |-> "api_message_return",
           from_api_message |-> Len(apimessages) - 1,
           value |-> ReturnValueSerialize(self.value)])

ApiMessageReturnSerialize(self, apimessages) ==
  LET hits == {i \in 0..(Len(apimessages) - 1) : apimessages[i + 1].oid = self.apimessage.oid}
  IN  IF hits = {} THEN Throw("Returning a non-called apimessage")
      ELSE Ok([_type |-> "api_message_return",
               from_api_message |-> Max(hits),
               value |-> ReturnValueSerialize(self.value)])

\* l.serialize(am) for an event l of Recorder.log
EventSerialize(l, apimessages) ==
  CASE l.type = "api_message" -> ApiMessageSerialize(l, apimessages)
    [] l.type = "closure_call" -> ClosureCallSerialize(l, apimessages)
    [] l.type = "api_message_return" -> ApiMessageReturnSerialize(l, apimessages)

(***************************************************************************)
(* deserialize                                                             *)
(***************************************************************************)
\* variant: every CallbackRef resolves to the callback of the first call
ClosureDeserializeFirst(apimessages, json) ==
  IF ~jt(json, "closure") THEN Throw("should be a closure")
  ELSE LET am == At(apimessages, 0)
       IN  IF ~tc(am, "api_message") THEN Throw("not of type ApiMessage")
           ELSE Ok(ApiMessageClosure(am))

ClosureDeserialize(apimessages, json) ==
  IF ~jt(json, "closure") THEN Throw("should be a closure")
  ELSE LET am == At(apimessages, json.callback_from)
       IN  IF ~tc(am, "api_message") THEN Throw("not of type ApiMessage")
           ELSE Ok(ApiMessageClosure(am))

\* typeof json.data === 'object' && json.data._type === 'wrapped_js_object' &&
\* json.data.wrapped_type === 'ArrayBuffer'
DeeperArrayBuffer(json) ==
  IF ~Has(json, "data") \/ typeof(json.data) # "object" THEN Ok(FALSE)
  ELSE IF json.data = Null THEN Throw("TypeError")
  ELSE Ok(IsWrapped(json.data) /\ json.data.wrapped_type = "ArrayBuffer")

RECURSIVE JSWrappedObjectDeserialize(_, _)
JSWrappedObjectDeserialize(apimessages, json) ==
  IF typeof(json) # "object" THEN Ok(json)
  ELSE IF json = Null THEN Throw("TypeError")
  ELSE IF HasType(json, "closure") THEN ClosureDeserialize(apimessages, json)
  ELSE IF ~DeeperArrayBuffer(json).ok THEN DeeperArrayBuffer(json)
  ELSE IF DeeperArrayBuffer(json).val
  THEN Collect([k \in DOMAIN json |-> JSWrappedObjectDeserialize(<<>>, json[k])])
  ELSE IF ~IsWrapped(json) THEN Ok(json)
  ELSE IF json.wrapped_type = "ArrayBuffer" THEN Ok(arrToBuf(json.value))
  ELSE Throw("Could not deserialize")

ArgumentsDeserialize(apimessages, json) ==
  IF ~HasType(json, "arguments") THEN Throw("AssertionError: _type")
  ELSE LET rs == [i \in 1..Len(json.args) |-> JSWrappedObjectDeserialize(apimessages, json.args[i])]
           bad == {i \in 1..Len(json.args) : ~rs[i].ok}
       IN  IF bad # {} THEN Throw(rs[Min(bad)].err)
           ELSE Ok(Arguments([i \in 1..Len(json.args) |-> rs[i].val]))

ClosureCallDeserialize(apimessages, json) ==
  IF ~jt(json, "closure_call") THEN Throw("should be a closure_call")
  ELSE LET c == ClosureDeserialize(apimessages, json.closure)
           a == ArgumentsDeserialize(apimessages, json.args)
       IN  IF ~c.ok THEN c
           ELSE IF ~a.ok THEN a
           ELSE IF ~tc(c.val, "closure") THEN Throw("not of type Closure")
           ELSE Ok(ClosureCall(c.val, a.val))

ReturnValueDeserialize(apimessages, json) ==
  IF ~jt(json, "return_value") THEN Throw("should be a return_value")
  ELSE Ok(ReturnValue(json))

\* variant: the CallReturn is taken to return the call replayed last
ApiMessageReturnDeserializeLast(apimessages, json) ==
  IF ~jt(json, "api_message_return") THEN Throw("should be a api_message_return")
  ELSE LET am == At(apimessages, Len(apimessages) - 1)
           rv == ReturnValueDeserialize(apimessages, json.value)
       IN  IF ~rv.ok THEN rv
           ELSE IF ~tc(am, "api_message") THEN Throw("not of type ApiMessage")
           ELSE Ok(ApiMessageReturn(am, rv.val))

ApiMessageReturnDeserialize(apimessages, json) ==
  IF ~jt(json, "api_message_return") THEN Throw("should be a api_message_return")
  ELSE LET am == At(apimessages, json.from_api_message)
           rv == ReturnValueDeserialize(apimessages, json.value)
       IN  IF ~rv.ok THEN rv
           ELSE IF ~tc(am, "api_message") THEN Throw("not of type ApiMessage")
           ELSE Ok(ApiMessageReturn(am, rv.val))

(***************************************************************************)
(* assertEqual                                                             *)
(***************************************************************************)
\* variant: any function matches any CallbackRef
ClosureAssertEqualAny(self, json, apimessages) ==
  IF ~jt(json, "closure") THEN Throw("should be a closure")
  ELSE Ok(TRUE)

ClosureAssertEqual(self, json, apimessages) ==
  IF ~jt(json, "closure") THEN Throw("should be a closure")
  ELSE IF json.callback_from < Len(apimessages)
       THEN LET c == ApiMessageClosure(At(apimessages, json.callback_from))
            IN  IF c = Null THEN Throw("TypeError")
                ELSE IF self.fn = c.fn THEN Ok(TRUE)
                ELSE Throw("AssertionError: closure")
       ELSE Ok(TRUE)

RECURSIVE JSWrappedObjectAssertEqual(_, _, _)
JSWrappedObjectAssertEqual(lifted, json, apimessages) ==
  IF typeof(json) # "object"
  THEN IF LooseEq(lifted, json) THEN Ok(TRUE) ELSE Throw("AssertionError: value")
  ELSE IF json = Null THEN Throw("TypeError")
  ELSE IF ~DeeperArrayBuffer(json).ok THEN DeeperArrayBuffer(json)
  ELSE IF DeeperArrayBuffer(json).val
  THEN IF lifted \in {Null, Undefined} THEN Throw("TypeError")
       ELSE IF ~Has(lifted, "data") \/ ~tc(lifted.data, "ArrayBuffer")
       THEN Throw("not of type ArrayBuffer")
       ELSE IF DOMAIN json # DOMAIN lifted THEN Throw("AssertionError: keys")
       ELSE Collect([k \in DOMAIN json |->
                       JSWrappedObjectAssertEqual(lifted[k], json[k], apimessages)])
  ELSE IF IsInstance(lifted, "closure") THEN ClosureAssertEqual(lifted, json, apimessages)
  ELSE IF ~IsWrapped(json)
       THEN IF DeepEq(lifted, json) THEN Ok(TRUE) ELSE Throw("AssertionError: value")
  ELSE IF json.wrapped_type = "ArrayBuffer"
       THEN IF ~bufToArr(lifted).ok THEN bufToArr(lifted)
            ELSE IF bufToArr(lifted).val = json.value THEN Ok(TRUE)
            ELSE Throw("AssertionError: value")
  ELSE Throw("Can't compare")

\* variant: only the arguments both sides have are compared
ArgumentsAssertEqualPrefix(self, json, apimessages) ==
  IF ~HasType(json, self.type) THEN Throw("AssertionError: _type")
  ELSE LET n == Min({Len(json.args), Len(self.args)})
           rs == [i \in 1..n |->
                    JSWrappedObjectAssertEqual(self.args[i], json.args[i], apimessages)]
           bad == {i \in 1..n : ~rs[i].ok}
       IN  IF bad # {} THEN rs[Min(bad)] ELSE Ok(TRUE)

ArgumentsAssertEqual(self, json, apimessages) ==
  IF ~HasType(json, self.type) THEN Throw("AssertionError: _type")
  ELSE IF Len(json.args) # Len(self.args) THEN Throw("AssertionError: length")
  ELSE LET rs == [i \in 1..Len(json.args) |->
                    JSWrappedObjectAssertEqual(self.args[i], json.args[i], apimessages)]
           bad == {i \in 1..Len(json.args) : ~rs[i].ok}
       IN  IF bad # {} THEN rs[Min(bad)] ELSE Ok(TRUE)

\* variant: the method name is not compared
ApiMessageAssertEqualAnyName(self, serialized, apimessages) ==
  IF ~HasType(serialized, self.type) THEN Throw("AssertionError: _type")
  ELSE ArgumentsAssertEqual(self.args, serialized.args, apimessages)

ApiMessageAssertEqual(self, serialized, apimessages) ==
  IF ~HasType(serialized, self.type) THEN Throw("AssertionError: _type")
  ELSE IF serialized.name # self.name THEN Throw("AssertionError: name")
  ELSE ArgumentsAssertEqual(self.args, serialized.args, apimessages)

(***************************************************************************)
(* The program under test and the live API                                 *)
(*                                                                         *)
(* A program is a main body and the body shared by its callback functions  *)
(* (two function objects with the same code are still two functions).  A   *)
(* statement calls one API method; a guarded statement runs only if the    *)
(* call before it in the same body returned the value it expects.          *)
(***************************************************************************)
Stmt(name, args, guarded) ==
  [name |-> name, args |-> args, guarded |-> guarded, expect |-> Str("a")]

HelloStmts ==
  {Stmt("hello", <<Str(v)>>, FALSE) : v \in Vals}
    \cup {Stmt("hello", <<Str(v), Fn(f)>>, FALSE) : v \in Vals, f \in FnIds}

ByeStmts == {Stmt("bye", <<Str(v)>>, g) : v \in Vals, g \in BOOLEAN}

MainStmts == HelloStmts \cup ByeStmts

CbStmts == {Stmt("bye", <<Str("a")>>, FALSE)}

\* the first statement has no call before it; the first function a program
\* passes is called function 1
MainBodies ==
  {b \in UNION {[1..n -> MainStmts] : n \in 1..MaxMain} :
     /\ ~b[1].guarded
     /\ \A i \in 1..Len(b) :
          Len(b[i].args) = 2 /\ b[i].args[2] = Fn(2)
            => \E j \in 1..(i - 1) : Len(b[j].args) = 2}

CbBodies == {<<>>} \cup {<<s>> : s \in CbStmts}

Programs == [main : MainBodies, cbBody : CbBodies]

\* hello(name, cb) calls cb during the call (sync) and from a timer (async);
\* bye(name) calls nothing and returns a value
HelloBehaviours ==
  {[sync |-> <<Str("a")>>, async |-> <<>>, ret |-> Undefined, throws |-> FALSE],
   [sync |-> <<>>, async |-> <<Str("a")>>, ret |-> Undefined, throws |-> FALSE],
   [sync |-> <<Str("a")>>, async |-> <<Str("b")>>, ret |-> Undefined, throws |-> FALSE]}

ByeBehaviours == {[sync |-> <<>>, async |-> <<>>, ret |-> Str("a"), throws |-> FALSE]}

Apis == {[n \in Names |-> IF n = "hello" THEN h ELSE b] :
           h \in HelloBehaviours, b \in ByeBehaviours}

\* a method that throws instead of returning (after it fired its callbacks)
Throwing(behs) == {[b EXCEPT !.throws = TRUE] : b \in behs}

\* live APIs of which at least one method throws
ThrowingApis ==
  {[n \in Names |-> IF n = "hello" THEN h ELSE b] :
     h \in Throwing(HelloBehaviours), b \in ByeBehaviours \cup Throwing(ByeBehaviours)}
    \cup {[n \in Names |-> IF n = "hello" THEN h ELSE b] :
             h \in HelloBehaviours, b \in Throwing(ByeBehaviours)}

\* programs that send byte buffers: api.send(buf, function () {}) of the
\* test "arraybuffers", with the methods of the live API above
Hexes == {<<1, 2, 3>>, <<1, 3, 5>>, <<1, 2>>, <<257, 2, 3>>}

BufStmts ==
  {Stmt("hello", <<arrToBuf(h), Fn(1)>>, FALSE) : h \in Hexes}
    \cup {Stmt("bye", <<arrToBuf(h)>>, FALSE) : h \in Hexes}

BufPrograms ==
  [main : UNION {[1..n -> BufStmts] : n \in 1..MaxMain}, cbBody : CbBodies]

\* programs that pass two functions to one call: api.hello(name, f, g)
PairStmts ==
  {Stmt("hello", <<Str("a"), Fn(f)>>, FALSE) : f \in FnIds}
    \cup {Stmt("hello", <<Str("a"), Fn(f), Fn(g)>>, FALSE) : f \in FnIds, g \in FnIds}

PairPrograms ==
  [main : UNION {[1..n -> PairStmts] : n \in 1..MaxMain}, cbBody : CbBodies]

\* plain values: a number, a string, a boolean, null, an array, plain objects
Num(n) == [js |-> "number", v |-> n]
Bool(b) == [js |-> "boolean", v |-> b]
Arr(items) == [array |-> items]

PlainVals ==
  {Num(7), Str("a"), Bool(TRUE), Null, Arr(<<Num(7), Str("a")>>),
   [k |-> Str("a")], [data |-> Str("a")], [data |-> Null]}

\* programs that pass plain values: api.hello(v, f), api.bye(v)
PlainStmts ==
  {Stmt("hello", <<v, Fn(1)>>, FALSE) : v \in PlainVals}
    \cup {Stmt("bye", <<v>>, FALSE) : v \in PlainVals}

PlainPrograms ==
  [main : UNION {[1..n -> PlainStmts] : n \in 1..MaxMain}, cbBody : {<<>>}]

\* hello(v, cb) hands a plain value to cb, during the call or from a timer
PlainApis ==
  {[n \in Names |->
      IF n = "hello"
      THEN [sync |-> IF s THEN <<v>> ELSE <<>>, async |-> IF s THEN <<>> ELSE <<v>>,
            ret |-> Undefined, throws |-> FALSE]
      ELSE [sync |-> <<>>, async |-> <<>>, ret |-> Str("a"), throws |-> FALSE]] :
     s \in BOOLEAN, v \in PlainVals}

Body(f) == IF f = 0 THEN prog.main ELSE prog.cbBody

RECURSIVE NextPc(_, _, _)
NextPc(body, pc, last) ==
  IF pc > Len(body) THEN pc
  ELSE IF body[pc].guarded /\ last # body[pc].expect THEN NextPc(body, pc + 1, last)
  ELSE pc

\* the statement a body frame is about to run (past its end: the body returns)
Cur(fr) == NextPc(Body(fr.f), fr.pc, fr.last)
AtEnd(fr) == Cur(fr) > Len(Body(fr.f))

BodyFrame(f) == [k |-> "body", f |-> f, pc |-> 1, last |-> Undefined]

Top == stack[Len(stack)]
Pop(stk) == SubSeq(stk, 1, Len(stk) - 1)
SetTop(stk, fr) == [stk EXCEPT ![Len(stk)] = fr]

\* the callee returned val to the body frame on top of stk
ReturnTo(stk, val) == SetTop(stk, [stk[Len(stk)] EXCEPT !.last = val])

\* the callback parameter of hello(name, cb)
CbParam(args) == IF Len(args) >= 2 /\ typeof(args[2]) = "function" THEN args[2].f ELSE 0

(***************************************************************************)
(* Recorder                                                                *)
(***************************************************************************)
apiMessages(l) == SelectSeq(l, LAMBDA e : IsInstance(e, "api_message"))

\* wrapCallback: the wrapper of fn is memoized in Recorder.callbacks
wrapCallback(cbs, fn) ==
  IF \E i \in 1..Len(cbs) : cbs[i] = fn THEN cbs ELSE Append(cbs, fn)

RECURSIVE wrapCallbacks(_, _)
wrapCallbacks(cbs, args) ==
  IF args = <<>> THEN cbs
  ELSE wrapCallbacks(IF typeof(Head(args)) = "function"
                     THEN wrapCallback(cbs, Head(args).f) ELSE cbs,
                     Tail(args))

\* variant: log.unshift(e)
PushFront(l, e) == <<e>> \o l

\* log.push(e)
Push(l, e) == Append(l, e)

\* variant: the callbacks are dropped from the arguments
wrappedArgsNoCallbacks(args) == SelectSeq(args, LAMBDA a : typeof(a) # "function")

\* the arguments wrapCallbacks hands to the real method: each function is
\* replaced by its wrappedCallback
wrappedArgs(args) ==
  [i \in 1..Len(args) |->
     IF typeof(args[i]) = "function"
     THEN [js |-> "function", wrappedCallback |-> args[i].f]
     ELSE args[i]]

\* wrappedMethod up to the call of the real method
RecWrappedMethod ==
  /\ phase = "record"
  /\ stack # <<>>
  /\ Top.k = "body"
  /\ ~AtEnd(Top)
  /\ LET s == Body(Top.f)[Cur(Top)]
         am == ApiMessage(s.name, Arguments(s.args), Len(apiMessages(log)))
         beh == api[s.name]
         cb == CbParam(s.args)
     IN  /\ log' = Push(log, am)
         /\ callbacks' = wrapCallbacks(callbacks, s.args)
         /\ timers' = timers \o
              (IF cb = 0 THEN <<>>
               ELSE [i \in 1..Len(beh.async) |-> [fn |-> cb, args |-> <<beh.async[i]>>]])
         /\ stack' = Append(SetTop(stack, [Top EXCEPT !.pc = Cur(Top) + 1]),
                            [k |-> "wrappedMethod", am |-> am, cb |-> cb,
                             sync |-> IF cb = 0 THEN <<>> ELSE beh.sync,
                             ret |-> beh.ret, throws |-> beh.throws])
         /\ real' = Append(real, [ev |-> "method", oid |-> am.oid, name |-> s.name,
                                  given |-> s.args, args |-> wrappedArgs(s.args),
                                  at |-> Len(log')])
  /\ UNCHANGED <<phase, prog, api, scheduler, serialLog, runMessageLog, next, tasks,
                 raised, source, consumed, attempts, cbTrace, retTrace, deviation,
                 doneResult, runs>>

\* the real method calls its callback: wrappedCallback logs and calls fn
RecWrappedCallback ==
  /\ phase = "record"
  /\ stack # <<>>
  /\ Top.k = "wrappedMethod"
  /\ Top.sync # <<>>
  /\ log' = Push(log, ClosureCall(Closure(Top.cb), Arguments(<<Head(Top.sync)>>)))
  /\ stack' = Append(SetTop(stack, [Top EXCEPT !.sync = Tail(Top.sync)]), BodyFrame(Top.cb))
  /\ real' = Append(real, [ev |-> "callback", fn |-> Top.cb, given |-> <<Head(Top.sync)>>,
                           args |-> <<Head(Top.sync)>>, during |-> Top.am.oid,
                           at |-> Len(log')])
  /\ UNCHANGED <<phase, prog, api, scheduler, callbacks, timers, serialLog,
                 runMessageLog, next, tasks, raised, source, consumed, attempts,
                 cbTrace, retTrace, deviation, doneResult, runs>>

\* the real method returns: wrappedMethod logs the return and returns ret
RecReturn ==
  /\ phase = "record"
  /\ stack # <<>>
  /\ Top.k = "wrappedMethod"
  /\ Top.sync = <<>>
  /\ ~Top.throws
  /\ log' = Push(log, ApiMessageReturn(Top.am, ReturnValue(Top.ret)))
  /\ stack' = ReturnTo(Pop(stack), Top.ret)
  /\ real' = Append(real, [ev |-> "return", oid |-> Top.am.oid, value |-> Top.ret,
                           got |-> stack'[Len(stack')].last, at |-> Len(log)])
  /\ UNCHANGED <<phase, prog, api, scheduler, callbacks, timers, serialLog,
                 runMessageLog, next, tasks, raised, source, consumed, attempts,
                 cbTrace, retTrace, deviation, doneResult, runs>>

\* the real method throws: nothing is logged, the error unwinds wrappedMethod
\* and every frame above the function of the program that catches it (c), or
\* the whole stack when none does (c = 0)
RecThrow ==
  /\ phase = "record"
  /\ stack # <<>>
  /\ Top.k = "wrappedMethod"
  /\ Top.sync = <<>>
  /\ Top.throws
  /\ \E c \in 0..(Len(stack) - 1) :
       /\ c > 0 => stack[c].k = "body"
       /\ stack' = SubSeq(stack, 1, c)
  /\ real' = Append(real, [ev |-> "throw", oid |-> Top.am.oid, at |-> Len(log)])
  /\ UNCHANGED <<phase, prog, api, scheduler, log, callbacks, timers, serialLog,
                 runMessageLog, next, tasks, raised, source, consumed, attempts,
                 cbTrace, retTrace, deviation, doneResult, runs>>

\* a function of the program (main or a callback) returns
RecBodyReturn ==
  /\ phase = "record"
  /\ stack # <<>>
  /\ Top.k = "body"
  /\ AtEnd(Top)
  /\ stack' = Pop(stack)
  /\ UNCHANGED <<phase, prog, api, scheduler, log, callbacks, timers, serialLog,
                 runMessageLog, next, tasks, raised, source, consumed, attempts,
                 cbTrace, retTrace, deviation, doneResult, real, runs>>

\* a timer of the live API fires the wrapped callback
RecTimer ==
  /\ phase = "record"
  /\ stack = <<>>
  /\ timers # <<>>
  /\ log' = Push(log, ClosureCall(Closure(Head(timers).fn), Arguments(Head(timers).args)))
  /\ timers' = Tail(timers)
  /\ stack' = <<BodyFrame(Head(timers).fn)>>
  /\ real' = Append(real, [ev |-> "callback", fn |-> Head(timers).fn,
                           given |-> Head(timers).args, args |-> Head(timers).args,
                           during |-> -1, at |-> Len(log')])
  /\ UNCHANGED <<phase, prog, api, scheduler, callbacks, serialLog, runMessageLog,
                 next, tasks, raised, source, consumed, attempts, cbTrace, retTrace,
                 deviation, doneResult, runs>>

(***************************************************************************)
(* Checker: construction                                                   *)
(***************************************************************************)
IsReturnJson(l) == HasType(l, "api_message_return")

Returned == Str("returned")

\* returns.forEach(...) of sanityCheckLog, from the i-th return on
RECURSIVE MarkReturns(_, _, _)
MarkReturns(returns, calls, i) ==
  IF i > Len(returns) THEN Ok(calls)
  ELSE LET r == returns[i]
           c == At(calls, r.from_api_message)
       IN  IF c = Undefined THEN Throw("Returned from non-called")
           ELSE IF c = Returned THEN Throw("Second return from same call")
           ELSE MarkReturns(returns,
                            [calls EXCEPT ![r.from_api_message + 1] = Returned],
                            i + 1)

\* variant: only the existence of the returned call is checked
sanityCheckLogIndexOnly(jsonLog) ==
  LET returns == SelectSeq(jsonLog, IsReturnJson)
  IN  IF \E i \in 1..Len(returns) : At(returns, returns[i].from_api_message) = Undefined
      THEN Throw("Returned from non-called")
      ELSE Ok(TRUE)

sanityCheckLog(jsonLog) ==
  LET returns == SelectSeq(jsonLog, IsReturnJson)
      calls == SelectSeq(jsonLog, IsReturnJson)
      m == MarkReturns(returns, calls, 1)
  IN  IF ~m.ok THEN m
      ELSE IF \E i \in 1..Len(m.val) : m.val[i] # Returned
           THEN Throw("Method probably raised an error")
           ELSE Ok(TRUE)

\* variant: the list of replayed calls is one list for all Checkers
CheckerSharedRunLog(serialLog_, methods_) ==
  LET chk == sanityCheckLog(serialLog_)
  IN  IF ~chk.ok THEN chk
      ELSE Ok([type |-> "checker", serialLog |-> serialLog_,
               runMessageLog |-> runMessageLog, next |-> "null",
               methods |-> methods_])

\* new Checker(serialLog, methods, scheduler)
Checker(serialLog_, methods_) ==
  LET chk == sanityCheckLog(serialLog_)
  IN  IF ~chk.ok THEN chk
      ELSE Ok([type |-> "checker", serialLog |-> serialLog_,
               runMessageLog |-> <<>>, next |-> "null",
               methods |-> methods_])

\* variant: the document holds the Calls replayed so far
CheckerSerializeRunLog(self) ==
  [_type |-> self.type, log |-> self.runMessageLog, methods |-> self.methods]

CheckerSerialize(self) ==
  [_type |-> self.type, log |-> self.serialLog, methods |-> self.methods]

CheckerDeserialize(json) ==
  IF ~HasType(json, "checker") THEN Throw("AssertionError: _type")
  ELSE Checker(json.log, json.methods)

\* Recorder.checker()
RecorderChecker(l) ==
  LET am == apiMessages(l)
      rs == [i \in 1..Len(l) |-> EventSerialize(l[i], am)]
      bad == {i \in 1..Len(l) : ~rs[i].ok}
  IN  IF bad # {} THEN Throw(rs[Min(bad)].err)
      ELSE Checker([i \in 1..Len(l) |-> rs[i].val], Methods)

\* JSON.parse(JSON.stringify(x)) of an event: a property holding undefined
\* is dropped
JSONEvent(e) ==
  IF HasType(e, "api_message_return") /\ e.value.value = Undefined
  THEN [e EXCEPT !.value = [_type |-> "return_value"]]
  ELSE e

JSONRoundTrip(json) ==
  [json EXCEPT !.log = [i \in 1..Len(json.log) |-> JSONEvent(json.log[i])]]

(***************************************************************************)
(* Hand edit of a persisted Log: swap two adjacent Call/CallReturn pairs   *)
(***************************************************************************)
IsCallJson(l) == HasType(l, "api_message")

CallsBefore(json, k) == Len(SelectSeq(SubSeq(json, 1, k - 1), IsCallJson))
ReturnsBefore(json, k) == Len(SelectSeq(SubSeq(json, 1, k - 1), IsReturnJson))

ClosureArgs(callJson) ==
  {callJson.args.args[i].callback_from :
     i \in {j \in 1..Len(callJson.args.args) : HasType(callJson.args.args[j], "closure")}}

\* events k..k+3 are Call, its CallReturn, Call, its CallReturn, outside any
\* call; the Calls differ and the second does not use a callback of the first
Swappable(json, k) ==
  /\ k + 3 <= Len(json)
  /\ IsCallJson(json[k]) /\ IsReturnJson(json[k + 1])
  /\ IsCallJson(json[k + 2]) /\ IsReturnJson(json[k + 3])
  /\ CallsBefore(json, k) = ReturnsBefore(json, k)
  /\ json[k + 1].from_api_message = CallsBefore(json, k)
  /\ json[k + 3].from_api_message = CallsBefore(json, k) + 1
  /\ json[k] # json[k + 2]
  /\ CallsBefore(json, k) \notin ClosureArgs(json[k + 2])

SwapPairs(json, k) ==
  [i \in 1..Len(json) |->
     IF i \in {k, k + 1} THEN json[i + 2]
     ELSE IF i \in {k + 2, k + 3} THEN json[i - 2]
     ELSE json[i]]

NoDeviation == [kind |-> "none", at |-> 0]

\* JSON.parse(JSON.stringify(chk.serialize())), then the hand edit
Persisted(chk, edit) ==
  IF edit = 0 THEN JSONRoundTrip(CheckerSerialize(chk))
  ELSE [JSONRoundTrip(CheckerSerialize(chk)) EXCEPT
          !.log = SwapPairs(JSONRoundTrip(CheckerSerialize(chk)).log, edit)]

\* the Checker the replay runs on: rec.checker() itself, or the one
\* Checker.deserialize makes of the persisted rec.checker()
ReplayChecker(c1, route, edit) ==
  IF ~c1.ok \/ route = "checker" THEN c1
  ELSE CheckerDeserialize(Persisted(c1.val, edit))

CanSwap(c1, edit) == c1.ok /\ Swappable(Persisted(c1.val, 0).log, edit)

\* the program is started on the api of Checker c
StartReplay(c) ==
  IF c.ok
  THEN /\ phase' = "replay"
       /\ serialLog' = c.val.serialLog
       /\ runMessageLog' = c.val.runMessageLog
       /\ next' = c.val.next
       /\ source' = c.val.serialLog
       /\ stack' = <<BodyFrame(0)>>
       /\ raised' = raised
  ELSE /\ phase' = "failed"
       /\ raised' = c.err
       /\ UNCHANGED <<serialLog, runMessageLog, next, source, stack>>

\* rec.checker(), or JSON.stringify(rec.checker().serialize()) parsed, perhaps
\* edited, and handed to Checker.deserialize with the default scheduler
\* (setTimeout returns a handle) or with one that returns nothing; then the
\* program is run again
MakeChecker ==
  /\ phase = "record"
  /\ stack = <<>>
  /\ timers = <<>>
  /\ \E route \in {"checker", "deserialize"} :
     \E edit \in 0..Len(log) :
     \E sched \in {"handle", "void"} :
       /\ edit # 0 => route = "deserialize" /\ CanSwap(RecorderChecker(log), edit)
       /\ sched # "handle" => route = "deserialize"
       /\ scheduler' = sched
       /\ StartReplay(ReplayChecker(RecorderChecker(log), route, edit))
       /\ deviation' = IF edit = 0 THEN NoDeviation ELSE [kind |-> "swap", at |-> edit]
  /\ UNCHANGED <<prog, api, log, callbacks, timers, tasks, consumed,
                 attempts, cbTrace, retTrace, doneResult, real, runs>>

(***************************************************************************)
(* Checker: replay                                                         *)
(***************************************************************************)
\* an uncaught error unwinds the whole stack and ends the replay
\* variant: the error is noted and the program goes on
RaiseAndGoOn(msg) ==
  /\ phase' = phase
  /\ raised' = msg
  /\ stack' = Pop(stack)

Raise(msg) ==
  /\ phase' = "failed"
  /\ raised' = msg
  /\ stack' = <<>>

\* variant: a task is armed only while one is pending
scheduleWakeInverted(nx, tk) ==
  IF nx # "handle" THEN [next |-> nx, tasks |-> tk]
  ELSE [next |-> IF scheduler = "handle" THEN "handle" ELSE "undefined",
        tasks |-> tk + 1]

\* scheduleWake: arm one deferred task unless this.next is truthy
scheduleWake(nx, tk) ==
  IF nx = "handle" THEN [next |-> nx, tasks |-> tk]
  ELSE [next |-> IF scheduler = "handle" THEN "handle" ELSE "undefined",
        tasks |-> tk + 1]

\* variant: the loop goes on only while the head is a CallbackInvocation
LoopContinuesOnCallback(head) == HasType(head, "closure_call")

\* the while condition of checkedMethod: the head is not the CallReturn
LoopContinues(head) == ~HasType(head, "api_message_return")

\* the test of the deferred task: the head is a CallbackInvocation
WakeFires(slog) == slog # <<>> /\ HasType(slog[1], "closure_call")

\* the value checkedMethod returns
ReturnedValue(retobj) == retobj.value.value

\* variant: done() never raises
DoneRaisesNever(slog) == FALSE

\* done() raises iff this holds
DoneRaises(slog) == slog # <<>>

\* variant: without the first assert of checkedMethod
NotRecordedNever(slog) == FALSE

\* the first assert of checkedMethod fails iff this holds
NotRecorded(slog) == slog = <<>>

\* variant: this.serialLog is the array the constructor was handed
sliceSameArray(handed, slog) == slog

\* this.serialLog = serialLog.slice() is an array of its own: when the Checker
\* has shifted its array down to slog, the array it was handed is as it was
slice(handed, slog) == handed

\* array.shift(): undefined of an empty array
\* variant: a CallbackInvocation at the head is passed over
ShiftPastCallback(slog) ==
  IF slog = <<>> THEN Undefined
  ELSE IF HasType(Head(slog), "closure_call") /\ Len(slog) > 1 THEN slog[2]
  ELSE Head(slog)

Shift(slog) == IF slog = <<>> THEN Undefined ELSE Head(slog)

\* variant: the head is read and stays at the head
ShiftedNothing(slog) == slog

\* variant: shift() takes two events off the array
ShiftedTwice(slog) == IF Len(slog) < 2 THEN <<>> ELSE Tail(Tail(slog))

\* the array after array.shift()
Shifted(slog) == IF slog = <<>> THEN <<>> ELSE Tail(slog)

\* variant: the thunk runs at once, inside the call that armed it
TaskMayRunInline(stk) == TRUE

\* scheduler.setTimeout defers the thunk to a later turn of the event loop:
\* it runs when the stack stk has unwound
TaskMayRun(stk) == stk = <<>>

\* checkedMethod frames on the stack
RECURSIVE CallDepth(_)
CallDepth(stk) ==
  IF stk = <<>> THEN 0
  ELSE (IF Head(stk).k = "checkedMethod" THEN 1 ELSE 0) + CallDepth(Tail(stk))

\* variant: rec.checker() hands every Checker one and the same list
mapSameArray(others, slog) ==
  [i \in 1..Len(others) |->
     [others[i] EXCEPT !.serialLog = IF others[i].then = "checker" THEN slog ELSE @]]

\* Recorder.checker builds the list of a Checker with this.log.map: a new
\* array at every call, so the Checkers made before keep theirs when the
\* residual Log of this one becomes slog
map(others, slog) == others

\* checkedMethod from its entry to the push on runMessageLog, called by the
\* body frame on top with statement s; the frame goes on at newpc
CheckedMethodCall(s, newpc, kind) ==
  LET currentAm == ApiMessage(s.name, Arguments(s.args), Len(attempts))
      apimessages == apiMessages(runMessageLog)
      attempt == [head |-> Undefined, am |-> currentAm, known |-> Len(apimessages),
                  pos |-> consumed + 1, kind |-> kind, ok |-> FALSE]
  IN  IF NotRecorded(serialLog)
      THEN /\ Raise("Method call not recorded")
           /\ attempts' = Append(attempts, attempt)
           /\ UNCHANGED <<serialLog, runMessageLog, consumed, source, runs>>
      ELSE LET am == Shift(serialLog)
               eq == ApiMessageAssertEqual(currentAm, am, apimessages)
           IN  /\ serialLog' = Shifted(serialLog)
               /\ source' = slice(source, Shifted(serialLog))
               /\ runs' = map(runs, Shifted(serialLog))
               /\ consumed' = consumed + 1
               /\ attempts' = Append(attempts, [attempt EXCEPT !.head = am, !.ok = eq.ok])
               /\ IF eq.ok
                  THEN /\ runMessageLog' = Append(runMessageLog, currentAm)
                       /\ stack' = Append(SetTop(stack, [Top EXCEPT !.pc = newpc]),
                                          [k |-> "checkedMethod", currentAm |-> currentAm])
                       /\ UNCHANGED <<phase, raised>>
                  ELSE /\ Raise(eq.err)
                       /\ UNCHANGED runMessageLog

\* A second replay runs the program of the first one: where the first
\* program differed from the recorded one, the second differs alike.
ProgramChanges == {"replace", "insert", "skip"}

\* how the program of the first replay differed from the recorded one
Plan == IF runs = <<>> THEN NoDeviation ELSE runs[1].deviation

\* the call the changed program made instead of, or besides, the recorded one
PlanCalls ==
  IF runs = <<>> THEN {}
  ELSE {runs[1].attempts[i].am : i \in {j \in 1..Len(runs[1].attempts) :
                                         runs[1].attempts[j].kind # "faithful"}}

\* the change is due at the current point of the second replay
PlanDue(kind) ==
  /\ runs # <<>>
  /\ deviation.kind \notin ProgramChanges
  /\ Plan.kind = kind
  /\ runs[1].then # "same"
  /\ Plan.at = consumed + 1

\* the changed program may make the call of statement s here
MayChange(kind, s) ==
  \/ runs = <<>>
  \/ /\ PlanDue(kind)
     /\ \E am \in PlanCalls : am.name = s.name /\ am.args = Arguments(s.args)

\* the program makes the call it made when it was recorded
ChkCheckedMethod ==
  /\ phase = "replay"
  /\ stack # <<>>
  /\ Top.k = "body"
  /\ ~AtEnd(Top)
  /\ ~\E kind \in ProgramChanges : PlanDue(kind)
  /\ CheckedMethodCall(Body(Top.f)[Cur(Top)], Cur(Top) + 1, "faithful")
  /\ UNCHANGED <<prog, api, scheduler, log, callbacks, timers, next, tasks,
                 cbTrace, retTrace, deviation, doneResult, real>>

\* another name, another value, another callback, one argument more or less
Variants(s) ==
  {[s EXCEPT !.name = n] : n \in Names \ {s.name}}
    \cup {[s EXCEPT !.args[1] = Str(v)] : v \in {w \in Vals : Str(w) # s.args[1]}}
    \cup (IF Len(s.args) = 2
          THEN {[s EXCEPT !.args[2] = Fn(f)] : f \in FnIds \ {s.args[2].f}}
                 \cup {[s EXCEPT !.args = <<s.args[1]>>]}
          ELSE {[s EXCEPT !.args = <<s.args[1], Fn(f)>>] : f \in FnIds})
    \cup (IF IsInstance(s.args[1], "ArrayBuffer")
          THEN {[s EXCEPT !.args[1] = arrToBuf(h)] :
                  h \in {g \in Hexes : arrToBuf(g) # s.args[1]}}
          ELSE {})

InsertStmts == {Stmt(n, <<Str(v)>>, FALSE) : n \in Names, v \in Vals}

\* a changed program: one call differs from the recorded one
ChkReplacedCall ==
  /\ phase = "replay"
  /\ deviation = NoDeviation
  /\ stack # <<>>
  /\ Top.k = "body"
  /\ ~AtEnd(Top)
  /\ \E s \in Variants(Body(Top.f)[Cur(Top)]) :
       /\ MayChange("replace", s)
       /\ CheckedMethodCall(s, Cur(Top) + 1, "replace")
  /\ deviation' = [kind |-> "replace", at |-> consumed + 1]
  /\ UNCHANGED <<prog, api, scheduler, log, callbacks, timers, next, tasks,
                 cbTrace, retTrace, doneResult, real>>

\* a changed program: one call more than was recorded
ChkExtraCall ==
  /\ phase = "replay"
  /\ deviation = NoDeviation
  /\ stack # <<>>
  /\ Top.k = "body"
  /\ \E s \in InsertStmts :
       /\ MayChange("insert", s)
       /\ CheckedMethodCall(s, Cur(Top), "insert")
  /\ deviation' = [kind |-> "insert", at |-> consumed + 1]
  /\ UNCHANGED <<prog, api, scheduler, log, callbacks, timers, next, tasks,
                 cbTrace, retTrace, doneResult, real>>

\* a changed program: one recorded call is not made
ProgSkipCall ==
  /\ phase = "replay"
  /\ deviation = NoDeviation
  /\ stack # <<>>
  /\ Top.k = "body"
  /\ ~AtEnd(Top)
  /\ runs = <<>> \/ PlanDue("skip")
  /\ stack' = SetTop(stack, [Top EXCEPT !.pc = Cur(Top) + 1])
  /\ deviation' = [kind |-> "skip", at |-> consumed + 1]
  /\ UNCHANGED <<phase, prog, api, scheduler, log, callbacks, timers, serialLog,
                 runMessageLog, next, tasks, raised, source, consumed, attempts,
                 cbTrace, retTrace, doneResult, real, runs>>

\* one iteration of the while loop of checkedMethod: pop a CallbackInvocation
\* and call the live callback
ChkCallback ==
  /\ phase = "replay"
  /\ stack # <<>>
  /\ Top.k = "checkedMethod"
  /\ IF serialLog = <<>>
     THEN /\ Raise("TypeError")
          /\ UNCHANGED <<serialLog, consumed, cbTrace, source, runs>>
     ELSE /\ LoopContinues(Head(serialLog))
          /\ LET cc == ClosureCallDeserialize(runMessageLog, Head(serialLog))
             IN  /\ serialLog' = Tail(serialLog)
                 /\ source' = slice(source, Tail(serialLog))
                 /\ runs' = map(runs, Tail(serialLog))
                 /\ consumed' = consumed + 1
                 /\ IF cc.ok
                    THEN /\ stack' = Append(stack, BodyFrame(cc.val.closure.fn))
                         /\ cbTrace' = Append(cbTrace,
                               [pos |-> consumed + 1, fn |-> cc.val.closure.fn,
                                args |-> ArgumentsRaw(cc.val.args), ctx |-> "call",
                                frames |-> Len(stack), calls |-> CallDepth(stack)])
                         /\ UNCHANGED <<phase, raised>>
                    ELSE /\ Raise(cc.err)
                         /\ UNCHANGED cbTrace
  /\ UNCHANGED <<prog, api, scheduler, log, callbacks, timers, runMessageLog, next,
                 tasks, attempts, retTrace, deviation, doneResult, real>>

\* the end of checkedMethod: pop the CallReturn, arm the scheduler, return
ChkReturn ==
  /\ phase = "replay"
  /\ stack # <<>>
  /\ Top.k = "checkedMethod"
  /\ serialLog # <<>>
  /\ ~LoopContinues(Head(serialLog))
  /\ LET retobj == ApiMessageReturnDeserialize(runMessageLog, Head(serialLog))
         w == scheduleWake(next, tasks)
     IN  /\ serialLog' = Tail(serialLog)
         /\ source' = slice(source, Tail(serialLog))
         /\ runs' = map(runs, Tail(serialLog))
         /\ consumed' = consumed + 1
         /\ IF ~retobj.ok
            THEN /\ Raise(retobj.err)
                 /\ UNCHANGED <<next, tasks, retTrace>>
            ELSE IF retobj.val.apimessage.oid # Top.currentAm.oid
            THEN /\ Raise("AssertionError: return")
                 /\ UNCHANGED <<next, tasks, retTrace>>
            ELSE /\ next' = w.next
                 /\ tasks' = w.tasks
                 /\ stack' = ReturnTo(Pop(stack), ReturnedValue(retobj.val))
                 /\ retTrace' = Append(retTrace,
                       [oid |-> Top.currentAm.oid, pos |-> consumed + 1,
                        value |-> ReturnedValue(retobj.val), ncb |-> Len(cbTrace)])
                 /\ UNCHANGED <<phase, raised>>
  /\ UNCHANGED <<prog, api, scheduler, log, callbacks, timers, runMessageLog,
                 attempts, cbTrace, deviation, doneResult, real>>

\* a function of the program returns: to nobody (main), to the while loop of
\* checkedMethod, or to the deferred task, which arms the scheduler again
ChkBodyReturn ==
  /\ phase = "replay"
  /\ stack # <<>>
  /\ Top.k = "body"
  /\ AtEnd(Top)
  /\ ~PlanDue("insert")
  /\ LET rest == Pop(stack)
         w == scheduleWake(next, tasks)
     IN  IF rest = <<>>
         THEN /\ stack' = rest
              /\ UNCHANGED <<phase, raised, next, tasks>>
         ELSE IF rest[Len(rest)].k = "checkedMethod"
         THEN /\ IF serialLog = <<>>
                 THEN Raise("Api method did not return")
                 ELSE /\ stack' = rest
                      /\ UNCHANGED <<phase, raised>>
              /\ UNCHANGED <<next, tasks>>
         ELSE /\ stack' = Pop(rest)
              /\ next' = w.next
              /\ tasks' = w.tasks
              /\ UNCHANGED <<phase, raised>>
  /\ UNCHANGED <<prog, api, scheduler, log, callbacks, timers, serialLog,
                 runMessageLog, source, consumed, attempts, cbTrace, retTrace,
                 deviation, doneResult, real, runs>>

\* the scheduler runs the deferred task
WakeTask ==
  /\ phase = "replay"
  /\ TaskMayRun(stack)
  /\ tasks > 0
  /\ tasks' = tasks - 1
  /\ next' = "null"
  /\ IF WakeFires(serialLog)
     THEN LET cc == ClosureCallDeserialize(runMessageLog, Head(serialLog))
          IN  /\ serialLog' = Tail(serialLog)
              /\ source' = slice(source, Tail(serialLog))
              /\ runs' = map(runs, Tail(serialLog))
              /\ consumed' = consumed + 1
              /\ IF cc.ok
                 THEN /\ stack' = stack \o <<[k |-> "wake"], BodyFrame(cc.val.closure.fn)>>
                      /\ cbTrace' = Append(cbTrace,
                            [pos |-> consumed + 1, fn |-> cc.val.closure.fn,
                             args |-> ArgumentsRaw(cc.val.args), ctx |-> "task",
                             frames |-> Len(stack), calls |-> CallDepth(stack)])
                      /\ UNCHANGED <<phase, raised>>
                 ELSE /\ Raise(cc.err)
                      /\ UNCHANGED cbTrace
     ELSE UNCHANGED <<phase, raised, stack, serialLog, consumed, cbTrace, source, runs>>
  /\ UNCHANGED <<prog, api, scheduler, log, callbacks, timers, runMessageLog,
                 attempts, retTrace, deviation, doneResult, real>>

\* the program has returned, every deferred task has run: done()
Done ==
  /\ phase = "replay"
  /\ stack = <<>>
  /\ tasks = 0
  /\ phase' = "finished"
  /\ doneResult' = IF DoneRaises(serialLog) THEN "raised" ELSE "ok"
  /\ UNCHANGED <<prog, api, scheduler, stack, log, callbacks, timers, serialLog,
                 runMessageLog, next, tasks, raised, source, consumed, attempts,
                 cbTrace, retTrace, deviation, real, runs>>

(***************************************************************************)
(* A second replay of the program                                          *)
(***************************************************************************)
\* variant: the second replay always runs on the Checker of the first
SecondCheckerUsed(how) ==
  Ok([type |-> "checker", serialLog |-> serialLog,
      runMessageLog |-> runMessageLog, next |-> next])

\* the hand edit the persisted representation of the first replay had
Edited == IF deviation.kind = "swap" THEN deviation.at ELSE 0

\* the Checker of the second replay: Checker.deserialize of the persisted
\* representation once more, rec.checker() once more, or the same Checker
SecondChecker(how) ==
  CASE how = "deserialize" -> ReplayChecker(RecorderChecker(log), "deserialize", Edited)
    [] how = "checker" -> RecorderChecker(log)
    [] how = "same" -> Ok([type |-> "checker", serialLog |-> serialLog,
                           runMessageLog |-> runMessageLog, next |-> next,
                           methods |-> Methods])

\* what is kept of a replay that ended
Ended(how) ==
  [phase |-> phase, raised |-> raised, doneResult |-> doneResult,
   attempts |-> attempts, cbTrace |-> cbTrace, retTrace |-> retTrace,
   deviation |-> deviation, serialLog |-> serialLog, consumed |-> consumed,
   log |-> log, handed |-> source, then |-> how]

\* the first replay has ended; the program is run once more
Again ==
  /\ phase \in {"finished", "failed"}
  /\ runs = <<>>
  /\ source # <<>>
  /\ \E how \in {"deserialize", "checker", "same"} :
       /\ how = "same" => phase = "finished" /\ serialLog = <<>>
       /\ how = "checker" => deviation.kind # "swap"
       /\ runs' = <<Ended(how)>>
       /\ \E c \in {SecondChecker(how)} :
              /\ phase' = IF c.ok THEN "replay" ELSE "failed"
              /\ raised' = IF c.ok THEN "" ELSE c.err
              /\ serialLog' = IF c.ok THEN c.val.serialLog ELSE serialLog
              /\ runMessageLog' = IF c.ok THEN c.val.runMessageLog ELSE runMessageLog
              /\ next' = IF c.ok THEN c.val.next ELSE next
              /\ stack' = IF c.ok THEN <<BodyFrame(0)>> ELSE <<>>
              /\ source' = IF c.ok /\ how # "same" THEN c.val.serialLog ELSE source
       /\ IF how = "same"
          THEN UNCHANGED <<tasks, consumed, attempts, cbTrace, retTrace>>
          ELSE /\ tasks' = 0
               /\ consumed' = 0
               /\ attempts' = <<>>
               /\ cbTrace' = <<>>
               /\ retTrace' = <<>>
  /\ deviation' = IF deviation.kind = "swap" THEN deviation ELSE NoDeviation
  /\ doneResult' = "none"
  /\ UNCHANGED <<prog, api, scheduler, log, callbacks, timers, real>>

(***************************************************************************)
(* Specification                                                           *)
(***************************************************************************)
\* new bm.Recorder(api, methods) and the call of the program on rec.api
Start(programs, apis) ==
  /\ phase = "record"
  /\ prog \in programs
  /\ api \in apis
  /\ scheduler = "handle"
  /\ stack = <<BodyFrame(0)>>
  /\ log = <<>>
  /\ callbacks = <<>>
  /\ timers = <<>>
  /\ serialLog = <<>>
  /\ runMessageLog = <<>>
  /\ next = "null"
  /\ tasks = 0
  /\ raised = ""
  /\ source = <<>>
  /\ consumed = 0
  /\ attempts = <<>>
  /\ cbTrace = <<>>
  /\ retTrace = <<>>
  /\ deviation = NoDeviation
  /\ doneResult = "none"
  /\ real = <<>>
  /\ runs = <<>>

Init == Start(Programs, Apis)

Next ==
  \/ RecWrappedMethod
  \/ RecWrappedCallback
  \/ RecReturn
  \/ RecBodyReturn
  \/ RecTimer
  \/ MakeChecker
  \/ ChkCheckedMethod
  \/ ChkReplacedCall
  \/ ChkExtraCall
  \/ ProgSkipCall
  \/ ChkCallback
  \/ ChkReturn
  \/ ChkBodyReturn
  \/ WakeTask
  \/ Done

Spec == Init /\ [][Next]_vars

\* the JS engine runs the program to the end of each turn and the scheduler
\* runs every task it is given
LiveSpec ==
  /\ Init
  /\ [][Next]_vars
  /\ WF_vars(ChkCheckedMethod \/ ChkCallback \/ ChkReturn \/ ChkBodyReturn
               \/ WakeTask \/ Done)

\* record, replay, and replay once more
TwiceNext == Next \/ Again

TwiceSpec == Init /\ [][TwiceNext]_vars

\* programs that send byte buffers
BufInit == Start(BufPrograms, Apis)

BufSpec == BufInit /\ [][Next]_vars

\* programs and live APIs that pass plain values
PlainInit == Start(PlainPrograms, PlainApis)

PlainSpec == PlainInit /\ [][Next]_vars

\* programs that pass two functions to one call
PairInit == Start(PairPrograms, Apis)

PairSpec == PairInit /\ [][Next]_vars

\* recording on a live API of which a method throws, then rec.checker()
RaiseInit == Start(Programs, ThrowingApis)

RaiseNext ==
  \/ RecWrappedMethod
  \/ RecWrappedCallback
  \/ RecReturn
  \/ RecThrow
  \/ RecBodyReturn
  \/ RecTimer
  \/ MakeChecker

RaiseSpec == RaiseInit /\ [][RaiseNext]_vars

(***************************************************************************)
(* A Checker made of an event list that was written by hand                *)
(***************************************************************************)
CallJson(name, args) ==
  [_type |-> "api_message", args |-> [_type |-> "arguments", args |-> args],
   name |-> name]

ClosureJson(i) == [_type |-> "closure", callback_from |-> i]

ReturnJson(i) ==
  [_type |-> "api_message_return", from_api_message |-> i,
   value |-> [_type |-> "return_value", value |-> Str("a")]]

ClosureCallJson(i) ==
  [_type |-> "closure_call", closure |-> ClosureJson(i),
   args |-> [_type |-> "arguments", args |-> <<Str("a")>>]]

JsonEvents ==
  {CallJson("hello", <<Str("a"), ClosureJson(0)>>),
   CallJson("bye", <<Str("a")>>),
   ClosureCallJson(0)}
    \cup {ReturnJson(i) : i \in 0..MaxIndex}

JsonLogs == UNION {[1..n -> JsonEvents] : n \in 0..MaxLog}

\* the programs that call hello("a", f) and bye("a")
HandPrograms ==
  {p \in Programs :
     \A i \in 1..Len(p.main) :
       p.main[i] \in {Stmt("hello", <<Str("a"), Fn(1)>>, FALSE),
                      Stmt("bye", <<Str("a")>>, FALSE)}}

HandInit ==
  /\ phase = "handed"
  /\ prog \in HandPrograms
  /\ api \in {a \in Apis : a["hello"].sync # <<>> /\ a["hello"].async = <<>>}
  /\ scheduler = "handle"
  /\ stack = <<>>
  /\ log = <<>>
  /\ callbacks = <<>>
  /\ timers = <<>>
  /\ serialLog = <<>>
  /\ runMessageLog = <<>>
  /\ next = "null"
  /\ tasks = 0
  /\ raised = ""
  /\ source \in JsonLogs
  /\ consumed = 0
  /\ attempts = <<>>
  /\ cbTrace = <<>>
  /\ retTrace = <<>>
  /\ deviation = NoDeviation
  /\ doneResult = "none"
  /\ real = <<>>
  /\ runs = <<>>

\* Checker.deserialize(null, {_type: 'checker', log: source}), then the program
\* is run on its api
HandChecker ==
  /\ phase = "handed"
  /\ StartReplay(CheckerDeserialize(
       [_type |-> "checker", log |-> source, methods |-> Methods]))
  /\ UNCHANGED <<prog, api, scheduler, log, callbacks, timers, tasks, consumed,
                 attempts, cbTrace, retTrace, deviation, doneResult, real, runs>>

HandNext ==
  \/ HandChecker
  \/ ChkCheckedMethod
  \/ ChkCallback
  \/ ChkReturn
  \/ ChkBodyReturn
  \/ WakeTask
  \/ Done

HandSpec == HandInit /\ [][HandNext]_vars

(***************************************************************************)
(* Properties                                                              *)
(***************************************************************************)
\* the replayed program is the recorded one and the Log was not edited
Faithful == deviation = NoDeviation

Replayed == phase \in {"replay", "finished", "failed"}

\* the value a CallReturn event carries
CarriedValue(ret) == IF "value" \in DOMAIN ret.value THEN ret.value.value ELSE Undefined

\* nesting depth of position k of a Log: Calls before it not yet returned
LogDepth(json, k) == CallsBefore(json, k) - ReturnsBefore(json, k)

\* the live call am has the name, the argument count and the non-callback
\* argument values of the recorded event head, callbacks stand where
\* callbacks were recorded
SameCall(head, am) ==
  /\ HasType(head, "api_message")
  /\ head.name = am.name
  /\ Len(head.args.args) = Len(am.args.args)
  /\ \A j \in 1..Len(head.args.args) :
       IF HasType(head.args.args[j], "closure")
       THEN IsInstance(am.args.args[j], "closure")
       ELSE am.args.args[j] = head.args.args[j]

\* name, argument count or a non-callback argument value differ
Differs(head, am) ==
  /\ HasType(head, "api_message")
  /\ \/ head.name # am.name
     \/ Len(head.args.args) # Len(am.args.args)
     \/ \E j \in 1..Len(head.args.args) :
          /\ ~HasType(head.args.args[j], "closure")
          /\ am.args.args[j] # head.args.args[j]

HasReturned(i) == \E r \in 1..Len(retTrace) : retTrace[r].oid = attempts[i].am.oid

Mismatches ==
  {"AssertionError: _type", "AssertionError: name", "AssertionError: length",
   "AssertionError: value", "AssertionError: closure", "should be a closure"}

\* C1: replaying the recorded program on the Checker made of the recording
\* raises nowhere, and done() succeeds once every deferred task has run
C1_RoundTrip ==
  (Replayed /\ Faithful) =>
    /\ phase # "failed"
    /\ phase = "finished" => doneResult = "ok"

\* C2: a replayed method returns the value its CallReturn carries
C2_ReturnsRecordedValue ==
  \A r \in 1..Len(retTrace) :
    retTrace[r].value = CarriedValue(source[retTrace[r].pos])

\* C3: a replayed call is accepted only if the head of the residual Log is a
\* Call with the same name, argument count and arguments; a call that differs
\* in name, argument count or a non-callback argument raises an assertion
\* failure and returns nothing
C3_AcceptedOnlyIfEqual ==
  \A i \in 1..Len(attempts) :
    /\ attempts[i].ok => SameCall(attempts[i].head, attempts[i].am)
    /\ HasReturned(i) => attempts[i].ok
    /\ Differs(attempts[i].head, attempts[i].am) =>
         /\ ~attempts[i].ok
         /\ ~HasReturned(i)
         /\ phase = "failed"
         /\ raised \in {"AssertionError: name", "AssertionError: length",
                        "AssertionError: value"}

C3_Witness ==
  \E i \in 1..Len(attempts) :
    /\ Differs(attempts[i].head, attempts[i].am)
    /\ attempts[i].head.name = attempts[i].am.name
    /\ Len(attempts[i].head.args.args) = Len(attempts[i].am.args.args)
    /\ phase = "failed"

\* the function the program passed to the c-th replayed call (0-based), its
\* first function argument
LiveCallback(c) == ApiMessageClosure(attempts[c + 1].am).fn

C5_AsyncOnlyFromTask ==
  \A c \in 1..Len(cbTrace) :
    LogDepth(source, cbTrace[c].pos) = 0 =>
      /\ cbTrace[c].ctx = "task"
      /\ cbTrace[c].frames = 0
      /\ \E r \in 1..Len(retTrace) : retTrace[r].pos < cbTrace[c].pos

C5_Witness ==
  \E c \in 1..Len(cbTrace) :
    /\ LogDepth(source, cbTrace[c].pos) = 0
    /\ cbTrace[c].ctx = "task"
    /\ Len(retTrace) >= 2

\* a CallbackInvocation is at the head and the program has returned
AsyncPending ==
  /\ phase = "replay"
  /\ stack = <<>>
  /\ retTrace # <<>>
  /\ WakeFires(serialLog)

WakeRunning == stack # <<>> /\ stack[1].k = "wake"

\* no statement of the program depends on a returned value
Unguarded == \A i \in 1..Len(prog.main) : ~prog.main[i].guarded

Drained == phase = "finished" /\ serialLog = <<>> /\ doneResult = "ok"

\* C6: after a replayed call has returned, a CallbackInvocation at the head of
\* the residual Log is eventually invoked by the deferred task, unless the
\* replay fails; and the replay of a program that makes the recorded calls
\* eventually leaves the residual Log empty
C6_AsyncEventuallyInvoked ==
  /\ AsyncPending ~> (WakeRunning \/ phase = "failed")
  /\ (phase = "replay" /\ Unguarded) ~> (Drained \/ ~Faithful)

C6_Witness ==
  /\ Drained
  /\ Faithful
  /\ Len(cbTrace) >= 2
  /\ cbTrace[Len(cbTrace)].ctx = "task"
  /\ cbTrace[Len(cbTrace) - 1].ctx = "task"

C8_DoneIffEmpty ==
  phase = "finished" =>
    /\ doneResult = "raised" <=> serialLog # <<>>
    /\ deviation.kind = "skip" => doneResult = "raised"

C8_Witness ==
  /\ phase = "finished"
  /\ deviation.kind = "skip"
  /\ doneResult = "raised"
  /\ retTrace # <<>>

\* the recorded Call head reuses, as argument j, the callback of an earlier
\* replayed call
Reuses(i, j) ==
  /\ HasType(attempts[i].head, "api_message")
  /\ j \in 1..Len(attempts[i].head.args.args)
  /\ HasType(attempts[i].head.args.args[j], "closure")
  /\ attempts[i].head.args.args[j].callback_from < attempts[i].known

\* C9: where the Log records that a call received the callback of an earlier
\* call, a replay that passes another function raises an identity mismatch
\* and a replay that passes the identical function is accepted
C9_CallbackIdentity ==
  \A i \in 1..Len(attempts) :
    \A j \in 1..Len(attempts[i].am.args.args) :
      (Reuses(i, j) /\ SameCall(attempts[i].head, attempts[i].am)) =>
        IF attempts[i].am.args.args[j].fn
             = LiveCallback(attempts[i].head.args.args[j].callback_from)
        THEN attempts[i].ok
        ELSE /\ ~attempts[i].ok
             /\ ~HasReturned(i)
             /\ phase = "failed"
             /\ raised = "AssertionError: closure"

C9_Witness ==
  \E i \in 1..Len(attempts) :
    /\ Reuses(i, 2)
    /\ SameCall(attempts[i].head, attempts[i].am)
    /\ ~attempts[i].ok
    /\ raised = "AssertionError: closure"

DanglingCalls(l) ==
  {i \in 1..Len(l) :
     /\ IsInstance(l[i], "api_message")
     /\ ~\E j \in 1..Len(l) : /\ IsInstance(l[j], "api_message_return")
                              /\ l[j].apimessage.oid = l[i].oid}

SanityErrors ==
  {"Returned from non-called", "Second return from same call",
   "Method probably raised an error"}

\* C11: a Checker is not constructed from a Log with a Call that has no
\* CallReturn: the construction raises
C11_DanglingCallRejected ==
  (Replayed /\ DanglingCalls(log) # {}) =>
    /\ phase = "failed"
    /\ raised \in SanityErrors
    /\ attempts = <<>>

Threw == \E i \in 1..Len(real) : real[i].ev = "throw"

\* C12: after a method of the live API threw while recording, rec.checker()
\* raises and returns no Checker
C12_CheckerRaisesAfterThrow ==
  (Replayed /\ Threw) =>
    /\ phase = "failed"
    /\ raised \in SanityErrors

\* position in the Recorder's log l of the Call oid and of its CallReturn
\* (0 if there is none)
CallAt(l, oid) ==
  LET S == {i \in 1..Len(l) : IsInstance(l[i], "api_message") /\ l[i].oid = oid}
  IN  IF S = {} THEN 0 ELSE Min(S)

ReturnAt(l, oid) ==
  LET S == {i \in 1..Len(l) : /\ IsInstance(l[i], "api_message_return")
                              /\ l[i].apimessage.oid = oid}
  IN  IF S = {} THEN 0 ELSE Min(S)

\* position k of l is inside the call oid: after its Call, before its CallReturn
Inside(l, k, oid) ==
  /\ CallAt(l, oid) > 0
  /\ CallAt(l, oid) < k
  /\ ReturnAt(l, oid) = 0 \/ k < ReturnAt(l, oid)

LogTypes(l) == [i \in 1..Len(l) |-> l[i].type]

\* C13: the Call is in the log when the real method starts and its CallReturn
\* is appended when the real method has returned; the CallbackInvocation is
\* in the log when the real callback starts; so what a callback fired during
\* a call logs lies between the Call and its CallReturn, and a callback fired
\* by a timer lies outside every Call/CallReturn pair
C13_RealTimeOrder ==
  phase = "record" =>
  /\ Len(log) = Len(real)
  /\ \A i \in 1..Len(real) :
       /\ real[i].at <= Len(log)
       /\ i > 1 => real[i - 1].at <= real[i].at
       /\ real[i].ev = "method" =>
            /\ CallAt(log, real[i].oid) = real[i].at
            /\ real[i].at = i
            /\ log[real[i].at].name = real[i].name
            /\ ArgumentsRaw(log[real[i].at].args) = real[i].given
            /\ ReturnAt(log, real[i].oid) = 0 \/ ReturnAt(log, real[i].oid) > real[i].at
       /\ real[i].ev = "return" =>
            /\ ReturnAt(log, real[i].oid) = real[i].at + 1
            /\ real[i].at + 1 = i
            /\ log[real[i].at + 1].value.value = real[i].value
            /\ CallAt(log, real[i].oid) \in 1..real[i].at
       /\ real[i].ev = "callback" =>
            /\ real[i].at = i
            /\ IsInstance(log[real[i].at], "closure_call")
            /\ log[real[i].at].closure.fn = real[i].fn
            /\ ArgumentsRaw(log[real[i].at].args) = real[i].given
            /\ IF real[i].during >= 0
               THEN Inside(log, real[i].at, real[i].during)
               ELSE \A j \in 1..Len(log) :
                      IsInstance(log[j], "api_message")
                        => ~Inside(log, real[i].at, log[j].oid)

C13_Witness ==
  phase = "record" /\ LogTypes(log) = <<"api_message", "closure_call", "api_message", "api_message_return",
                    "api_message_return", "closure_call", "api_message",
                    "api_message_return">>

RealEvents(ev) == {i \in 1..Len(real) : real[i].ev = ev}

C15_AtMostOneTask == tasks <= 1

\* the event lists a Checker of the recording can have been handed: the one
\* rec.checker() builds, and the persisted one, edited or not
HandedLists ==
  LET c1 == RecorderChecker(log)
  IN  IF ~c1.ok THEN {}
      ELSE IF deviation.kind = "swap" THEN {Persisted(c1.val, deviation.at).log}
      ELSE {c1.val.serialLog, Persisted(c1.val, 0).log}

\* C16: whatever is replayed on a Checker, the event list handed to its
\* constructor keeps its events: it is the residual Log preceded by the
\* consumed events, and a Checker deserialized from it starts with all of them
C16_SourceNotMutated ==
  /\ phase = "replay" =>
       /\ Len(source) = consumed + Len(serialLog)
       /\ serialLog = SubSeq(source, consumed + 1, Len(source))
  /\ (phase = "finished" \/ (phase = "failed" /\ consumed > 0)) =>
       /\ Len(source) = consumed + Len(serialLog)
       /\ serialLog = SubSeq(source, consumed + 1, Len(source))
       /\ source \in HandedLists
       /\ CheckerDeserialize(
            [_type |-> "checker", log |-> source, methods |-> Methods]).val.serialLog
            \in HandedLists

C16_Witness ==
  /\ phase = "finished"
  /\ consumed >= 5
  /\ serialLog = <<>>
  /\ Len(source) = consumed
  /\ cbTrace # <<>>

\* a second replay is under way or has ended, begun in the way how
Second(how) == runs # <<>> /\ runs[1].then = how

\* the first replay consumed its whole Log and done() succeeded
FirstSucceeded ==
  /\ runs # <<>>
  /\ runs[1].phase = "finished"
  /\ runs[1].doneResult = "ok"

\* C17: once a replay has consumed the whole Log, every further method call
\* on that Checker raises "Method call not recorded"; on a Checker
\* deserialized again from the persisted representation the program that
\* replayed successfully replays successfully again
C17_SingleUse ==
  /\ Second("same") =>
       /\ \A i \in (Len(runs[1].attempts) + 1)..Len(attempts) :
            attempts[i].head = Undefined /\ ~attempts[i].ok
       /\ Len(attempts) > Len(runs[1].attempts) =>
            phase = "failed" /\ raised = "Method call not recorded"
       /\ phase = "finished" => Len(attempts) = Len(runs[1].attempts)
  /\ (Second("deserialize") /\ FirstSucceeded) =>
       /\ phase # "failed"
       /\ phase = "finished" => doneResult = "ok"

C17_Witness ==
  /\ Second("same")
  /\ runs[1].consumed = Len(runs[1].handed)
  /\ Len(attempts) = Len(runs[1].attempts) + 1
  /\ phase = "failed"
  /\ raised = "Method call not recorded"

\* what is left of the list a Checker was made of after n events are taken
Residual(handed, n) == SubSeq(handed, n + 1, Len(handed))

\* C18: rec.checker() called again returns a Checker holding the whole Log of
\* the Recorder, whatever the replay on the Checker returned before has
\* consumed; the replay on it changes neither the Log of the Recorder nor the
\* residual Log of the Checker returned before
C18_FreshCompleteChecker ==
  (Second("checker") /\ phase # "record") =>
    /\ log = runs[1].log
    /\ Len(source) = Len(log)
    /\ Ok([type |-> "checker", serialLog |-> source,
           runMessageLog |-> <<>>, next |-> "null", methods |-> Methods])
         = RecorderChecker(log)
    /\ runs[1].serialLog = Residual(runs[1].handed, runs[1].consumed)

C18_Witness ==
  /\ Second("checker")
  /\ runs[1].phase = "failed"
  /\ runs[1].serialLog # <<>>
  /\ consumed > 0
  /\ consumed < runs[1].consumed
  /\ serialLog # runs[1].serialLog

\* two sequences agree as far as both go
SamePrefix(a, b) == \A i \in 1..Len(a) : i <= Len(b) => a[i] = b[i]

\* both replays ran on Checkers deserialized from the same event list
TwoDeserialized == Second("deserialize") /\ phase # "record" /\ runs[1].handed = source

BufferArg(head, am, j) ==
  /\ j <= Len(head.args.args) /\ j <= Len(am.args.args)
  /\ IsWrapped(head.args.args[j])
  /\ head.args.args[j].wrapped_type = "ArrayBuffer"
  /\ IsInstance(am.args.args[j], "ArrayBuffer")

\* the live buffer has the length and the bytes of the recorded one
SameBytes(head, am, j) ==
  /\ Len(am.args.args[j].bytes) = Len(head.args.args[j].value)
  /\ \A b \in 1..Len(am.args.args[j].bytes) :
       am.args.args[j].bytes[b] = head.args.args[j].value[b]

\* the live call has the name and argument count of the recorded one, and
\* apart from argument j callbacks where callbacks were recorded
SameButBuffer(head, am, j) ==
  /\ head.name = am.name
  /\ Len(head.args.args) = Len(am.args.args)
  /\ \A k \in 1..Len(head.args.args) :
       k # j => /\ HasType(head.args.args[k], "closure")
                /\ IsInstance(am.args.args[k], "closure")

\* C20: a replayed call that passes a buffer where the recorded Call carries
\* one is accepted if the two have the same length and the same bytes in the
\* same order (unless it passes another callback than the recorded one), and
\* raises an equality assertion failure if a byte or the length differs
C20_BinaryPayload ==
  \A i \in 1..Len(attempts) :
    \A j \in 1..Len(attempts[i].am.args.args) :
      (/\ HasType(attempts[i].head, "api_message")
       /\ BufferArg(attempts[i].head, attempts[i].am, j)
       /\ SameButBuffer(attempts[i].head, attempts[i].am, j)) =>
        IF SameBytes(attempts[i].head, attempts[i].am, j)
        THEN \/ attempts[i].ok
             \/ /\ i = Len(attempts)
                /\ Len(attempts[i].am.args.args) > 1
                /\ raised = "AssertionError: closure"
        ELSE /\ ~attempts[i].ok
             /\ i = Len(attempts)
             /\ phase = "failed"
             /\ raised = "AssertionError: value"

C20_Witness ==
  /\ Len(attempts) = 2
  /\ HasType(attempts[1].head, "api_message")
  /\ BufferArg(attempts[1].head, attempts[1].am, 1)
  /\ SameBytes(attempts[1].head, attempts[1].am, 1)
  /\ Len(attempts[1].am.args.args[1].bytes) = 3
  /\ attempts[1].ok
  /\ HasType(attempts[2].head, "api_message")
  /\ BufferArg(attempts[2].head, attempts[2].am, 1)
  /\ SameButBuffer(attempts[2].head, attempts[2].am, 1)
  /\ Len(attempts[2].am.args.args[1].bytes) = Len(attempts[2].head.args.args[1].value)
  /\ ~SameBytes(attempts[2].head, attempts[2].am, 1)
  /\ raised = "AssertionError: value"

\* the program left out a call that the Log records inside another call,
\* at position deviation.at
SkippedInCall ==
  /\ deviation.kind = "skip"
  /\ deviation.at <= Len(source)
  /\ LogDepth(source, deviation.at) >= 1

\* C21: when a callback invoked during a replayed call returns without a call
\* the Log records before the CallReturn of the enclosing Call, the leftover
\* Call is taken off as a CallbackInvocation and rejected: the enclosing call
\* raises and never returns
C21_LeftoverCallRaises ==
  SkippedInCall =>
    /\ \A r \in 1..Len(retTrace) : retTrace[r].pos < deviation.at
    /\ \A c \in 1..Len(cbTrace) : cbTrace[c].pos < deviation.at
    /\ consumed <= deviation.at
    /\ consumed = deviation.at =>
         phase = "failed" /\ raised = "should be a closure_call"
    /\ phase # "finished"

C21_Witness ==
  /\ SkippedInCall
  /\ HasType(source[deviation.at], "api_message")
  /\ consumed = deviation.at
  /\ phase = "failed"
  /\ raised = "should be a closure_call"

\* the Checker constructor has run on the handed list
Constructed == phase \in {"replay", "finished", "failed"}

\* the constructor threw: no Checker, no call was replayed
ConstructionFailed ==
  /\ phase = "failed"
  /\ raised \in SanityErrors
  /\ attempts = <<>>
  /\ consumed = 0

NumCalls(json) == Len(SelectSeq(json, IsCallJson))

\* CallReturns of json whose call index is not the index of a Call of json
OutOfRangeReturns(json) ==
  {i \in 1..Len(json) :
     IsReturnJson(json[i]) /\ json[i].from_api_message >= NumCalls(json)}

\* C22: the construction of a Checker raises for every Log with a CallReturn
\* whose call index is at or beyond the number of Calls of the Log
C22_ReturnOfNoCallRejected ==
  (Constructed /\ OutOfRangeReturns(source) # {}) => ConstructionFailed

\* pairs of CallReturns of json with the same call index
DoubleReturns(json) ==
  {p \in (1..Len(json)) \X (1..Len(json)) :
     /\ p[1] < p[2]
     /\ IsReturnJson(json[p[1]]) /\ IsReturnJson(json[p[2]])
     /\ json[p[1]].from_api_message = json[p[2]].from_api_message}

\* C23: the construction of a Checker raises for every Log in which two
\* CallReturns have the same call index
C23_SecondReturnRejected ==
  (Constructed /\ DoubleReturns(source) # {}) =>
    /\ ConstructionFailed
    /\ raised \in {"Returned from non-called", "Second return from same call"}

C23_Witness ==
  /\ Constructed
  /\ DoubleReturns(source) # {}
  /\ OutOfRangeReturns(source) = {}
  /\ NumCalls(source) = 2
  /\ raised = "Second return from same call"

\* the functions among the arguments of the calls replayed before attempt i
CallbacksBefore(i) ==
  UNION {{attempts[k].am.args.args[j].fn :
            j \in {n \in 1..Len(attempts[k].am.args.args) :
                     IsInstance(attempts[k].am.args.args[n], "closure")}} :
         k \in 1..(i - 1)}

\* argument j of attempt i is a function where the Log has a CallbackRef
CallbackArg(i, j) ==
  /\ HasType(attempts[i].head, "api_message")
  /\ j <= Len(attempts[i].head.args.args)
  /\ HasType(attempts[i].head.args.args[j], "closure")
  /\ IsInstance(attempts[i].am.args.args[j], "closure")

\* C24: a function is accepted for a CallbackRef only if the origin index is
\* that of a call replayed before and the function is the callback of that
\* call, or the CallbackRef denotes a new callback and the function was not
\* passed to any call replayed before
C24_CallbackMatchesOnlyIfSame ==
  \A i \in 1..Len(attempts) :
    \A j \in 1..Len(attempts[i].am.args.args) :
      (CallbackArg(i, j) /\ attempts[i].ok) =>
        IF attempts[i].head.args.args[j].callback_from < attempts[i].known
        THEN attempts[i].am.args.args[j].fn =
               ApiMessageClosure(
                 attempts[attempts[i].head.args.args[j].callback_from + 1].am).fn
        ELSE attempts[i].am.args.args[j].fn \notin CallbacksBefore(i)

\* the functions among the arguments of the Calls of the Log l
LogCallbacks(l) ==
  UNION {{l[i].args.args[j].fn :
            j \in {n \in 1..Len(l[i].args.args) : IsInstance(l[i].args.args[n], "closure")}} :
         i \in {k \in 1..Len(l) : IsInstance(l[k], "api_message")}}

\* the functions the serialization of the Log l encodes
LogClosures(l) ==
  LogCallbacks(l) \cup
    {l[i].closure.fn : i \in {k \in 1..Len(l) : IsInstance(l[k], "closure_call")}}

\* C25: every function that is an argument of a Call of the Log is encoded
\* as a CallbackRef, wherever it stands among the arguments: rec.checker()
\* does not fail with 'Closure callback not found'
C25_EveryPassedFunctionEncodes ==
  (Replayed /\ LogClosures(log) \subseteq LogCallbacks(log)) =>
    raised # "Closure callback not found in API messages"

\* the CallReturns a replayed call took off the Log to return: the
\* CallReturns consumed, but those a call met where it expected its Call
PoppedReturns ==
  {p \in 1..consumed :
     /\ IsReturnJson(source[p])
     /\ \A i \in 1..Len(attempts) : attempts[i].pos # p}

ReturnErrors == {"not of type ApiMessage", "AssertionError: return"}

\* C26: a replayed call returns only on a CallReturn whose call index is the
\* index of the Call this invocation matched; on a CallReturn with the index
\* of another replayed call, or of none, it raises and does not return
C26_ReturnOfThisCall ==
  \A p \in PoppedReturns :
    IF \E r \in 1..Len(retTrace) : retTrace[r].pos = p
    THEN \A r \in 1..Len(retTrace) :
           retTrace[r].pos = p =>
             /\ source[p].from_api_message = retTrace[r].oid
             /\ attempts[retTrace[r].oid + 1].am.oid = retTrace[r].oid
             /\ attempts[retTrace[r].oid + 1].ok
    ELSE /\ p = consumed
         /\ phase = "failed"
         /\ raised \in ReturnErrors
         /\ raised = "not of type ApiMessage" <=>
              source[p].from_api_message >= Len(attempts)

C26_Witness ==
  /\ phase = "failed"
  /\ raised = "AssertionError: return"
  /\ consumed \in PoppedReturns
  /\ source[consumed].from_api_message < Len(attempts)
  /\ retTrace = <<>>

\* attempt i was made while the head of the residual Log was a
\* CallbackInvocation
MetCallback(i) ==
  /\ attempts[i].pos <= Len(source)
  /\ HasType(source[attempts[i].pos], "closure_call")

\* C27: a method called while the head of the residual Log is a
\* CallbackInvocation raises; the callback is not invoked by that call and
\* the call does not return
C27_CallBeforeCallbackRaises ==
  \A i \in 1..Len(attempts) :
    MetCallback(i) =>
      /\ ~attempts[i].ok
      /\ i = Len(attempts)
      /\ phase = "failed"
      /\ raised = "AssertionError: _type"
      /\ consumed = attempts[i].pos
      /\ \A c \in 1..Len(cbTrace) : cbTrace[c].pos # attempts[i].pos
      /\ \A r \in 1..Len(retTrace) : retTrace[r].oid # attempts[i].am.oid

C27_Witness ==
  /\ attempts # <<>>
  /\ MetCallback(Len(attempts))
  /\ attempts[Len(attempts)].kind = "insert"
  /\ tasks > 0
  /\ phase = "failed"
  /\ raised = "AssertionError: _type"

\* this step is one run of the deferred task
TaskRuns == tasks' = tasks - 1

\* this step is the return of the callback the deferred task invoked
TaskCallbackReturns ==
  /\ Len(stack) >= 2
  /\ stack[Len(stack) - 1].k = "wake"
  /\ stack' = SubSeq(stack, 1, Len(stack) - 2)
  /\ phase' = "replay"

\* what one run of the deferred task does to the residual Log
TaskEffect ==
  IF serialLog # <<>> /\ HasType(Head(serialLog), "closure_call")
  THEN /\ serialLog' = Tail(serialLog)
       /\ consumed' = consumed + 1
       /\ Len(cbTrace') = Len(cbTrace) + 1
       /\ cbTrace'[Len(cbTrace')].pos = consumed + 1
       /\ cbTrace'[Len(cbTrace')].ctx = "task"
       /\ stack'[Len(stack')] = BodyFrame(cbTrace'[Len(cbTrace')].fn)
  ELSE /\ serialLog' = serialLog
       /\ cbTrace' = cbTrace
       /\ stack' = stack
       /\ phase' = phase

\* C28: one run of the deferred task takes exactly the CallbackInvocation at
\* the head off the residual Log and invokes it, and a task is armed when the
\* callback has returned; on a Call at the head or an empty Log it removes
\* nothing, invokes nothing, and no task is armed after it
C28_TaskPopsAtMostOne ==
  [][/\ TaskRuns => TaskEffect
     /\ (TaskRuns /\ ~(serialLog # <<>> /\ HasType(Head(serialLog), "closure_call")))
          => (tasks' = 0 /\ next' = "null")
     /\ TaskCallbackReturns => tasks' > 0]_vars

\* a replayed call has matched its Call and tests the head of the residual Log
AfterCallMatched == phase = "replay" /\ stack # <<>> /\ Top.k = "checkedMethod"

\* a synchronous callback of a replayed call is about to return to the call
AfterCallbackReplayed ==
  /\ phase = "replay"
  /\ Len(stack) >= 2
  /\ Top.k = "body"
  /\ AtEnd(Top)
  /\ stack[Len(stack) - 1].k = "checkedMethod"

\* C29: when the residual Log is empty where a replayed call looks for its
\* CallReturn, right after its Call was matched or after one of its
\* synchronous callbacks was replayed, the call raises and returns no value
C29_LogRunsOutInCall ==
  [][(serialLog = <<>> /\ (AfterCallMatched \/ AfterCallbackReplayed))
       => /\ phase' = "failed"
          /\ raised' = (IF AfterCallMatched THEN "TypeError"
                        ELSE "Api method did not return")
          /\ retTrace' = retTrace
          /\ serialLog' = <<>>]_vars

\* a call replayed its callback, found the residual Log empty and raised
C29_Witness ==
  /\ phase = "failed"
  /\ raised = "Api method did not return"
  /\ serialLog = <<>>
  /\ consumed = Len(source)
  /\ cbTrace # <<>>
  /\ cbTrace[Len(cbTrace)].ctx = "call"
  /\ Len(attempts) > Len(retTrace)

\* the callbacks of the first i recorded Calls (index 0..i-1)
EarlierCallbacks(i) ==
  {ApiMessageClosure(apiMessages(log)[j]).fn :
     j \in {m \in 1..i : IsInstance(ApiMessageClosure(apiMessages(log)[m]), "closure")}}

\* the Calls the replay had matched when it popped the event at position k
ReplayedBefore(k) ==
  Cardinality({i \in 1..Len(attempts) : attempts[i].ok /\ attempts[i].pos < k})

\* C30: in a faithful replay of a recorded Log every popped CallbackInvocation
\* carries an origin index below the number of Calls replayed so far, and the
\* replayed Call at that index has the live function that was recorded as this
\* callback, which is the function invoked; an origin index that is not below
\* the number of earlier Calls stands only at a Call argument, and the
\* function there is one no earlier Call had as its callback
C30_OriginIndexResolves ==
  (Replayed /\ Faithful /\ Len(source) = Len(log)) =>
    /\ \A k \in 1..consumed :
         HasType(source[k], "closure_call") =>
           LET idx == source[k].closure.callback_from
           IN  /\ idx < ReplayedBefore(k)
               /\ ReplayedBefore(k) = CallsBefore(source, k)
               /\ idx < Len(runMessageLog)
               /\ IsInstance(ApiMessageClosure(runMessageLog[idx + 1]), "closure")
               /\ ApiMessageClosure(runMessageLog[idx + 1]).fn = log[k].closure.fn
               /\ \E c \in 1..Len(cbTrace) :
                    cbTrace[c].pos = k /\ cbTrace[c].fn = log[k].closure.fn
    /\ \A k \in 1..Len(source) :
         /\ HasType(source[k], "closure_call") =>
              source[k].closure.callback_from < CallsBefore(source, k)
         /\ HasType(source[k], "api_message") =>
              \A j \in 1..Len(source[k].args.args) :
                HasType(source[k].args.args[j], "closure") =>
                  LET idx == source[k].args.args[j].callback_from
                      n == CallsBefore(source, k)
                  IN  idx >= n => log[k].args.args[j].fn \notin EarlierCallbacks(n)

\* a faithful replay ended well: the callback of the first Call was popped
\* after the second Call, and the second Call passed the same function again
C30_Witness ==
  /\ phase = "finished"
  /\ Faithful
  /\ doneResult = "ok"
  /\ \E c \in 1..Len(cbTrace) :
       /\ source[cbTrace[c].pos].closure.callback_from = 0
       /\ ReplayedBefore(cbTrace[c].pos) = 2
  /\ \E k \in 1..Len(source) :
       /\ HasType(source[k], "api_message")
       /\ CallsBefore(source, k) = 1
       /\ \E j \in 1..Len(source[k].args.args) :
            /\ HasType(source[k].args.args[j], "closure")
            /\ source[k].args.args[j].callback_from = 0

\* the arguments of the recorded event at position k that are not functions
\* stand in the encoded event as they are
EncodedAsIs(k) ==
  /\ Len(source[k].args.args) = Len(log[k].args.args)
  /\ \A j \in 1..Len(log[k].args.args) :
       IsInstance(log[k].args.args[j], "closure")
         \/ source[k].args.args[j] = log[k].args.args[j]

\* C31: plain argument values (a number, a string, a boolean, null, an array,
\* a plain object) pass the value codec unchanged: the recording is encoded
\* without an error and every such argument is its own encoding; the same
\* program replayed has each of its calls accepted against the encoding; and
\* each callback is invoked with the decoded arguments, which are the
\* recorded ones
C31_PlainValuesPassThrough ==
  (Replayed /\ deviation.kind # "swap") =>
    /\ Len(source) = Len(log)
    /\ \A k \in 1..Len(source) :
         ~HasType(source[k], "api_message_return") => EncodedAsIs(k)
    /\ Faithful =>
         /\ \A i \in 1..Len(attempts) : attempts[i].ok
         /\ \A k \in 1..consumed :
              HasType(source[k], "closure_call") =>
                \E c \in 1..Len(cbTrace) :
                  /\ cbTrace[c].pos = k
                  /\ cbTrace[c].args = ArgumentsRaw(log[k].args)

\* the Checker of the replay, as long as no call and no deferred task ran on it
Untouched == phase = "replay" /\ consumed = 0 /\ attempts = <<>> /\ next = "null"

\* the Checker object of the current state
ThisChecker ==
  [type |-> "checker", serialLog |-> serialLog, runMessageLog |-> runMessageLog,
   next |-> next, methods |-> Methods]

\* C32: serialize() of a Checker on which no replay step has run is a document
\* of type checker with the events the Checker was made of, in their order,
\* and with its list of methods; Checker.deserialize of the document is a
\* Checker with the same residual Log
C32_SerializeBeforeReplay ==
  Untouched =>
    LET doc == CheckerSerialize(ThisChecker)
    IN  /\ DOMAIN doc = {"_type", "log", "methods"}
        /\ doc._type = "checker"
        /\ Len(doc.log) = Len(source)
        /\ \A k \in 1..Len(source) : doc.log[k] = source[k]
        /\ doc.methods = Methods
        /\ CheckerDeserialize(doc).ok
        /\ CheckerDeserialize(doc).val.serialLog = serialLog
        /\ CheckerDeserialize(doc).val.methods = Methods

\* a Checker of a recording of five events, before the program is run on it
C32_Witness ==
  /\ Untouched
  /\ Len(source) >= 5
  /\ Len(log) = Len(source)
  /\ \E k \in 1..Len(source) : HasType(source[k], "closure_call")
  /\ CheckerSerialize(ThisChecker).log = serialLog

\* this step is a replayed call that took the head of the residual Log and
\* failed the comparison with it
CallFailsEquality ==
  /\ Len(attempts') = Len(attempts) + 1
  /\ ~attempts'[Len(attempts')].ok
  /\ attempts'[Len(attempts')].head # Undefined

\* C33: a replayed call that fails the comparison with the expected event has
\* taken that event off the head of the residual Log: after it the residual
\* Log is the one before without its first event, the list of replayed Calls
\* is as it was, no deferred task was armed, and the call returned nothing
C33_FailedCallConsumesHead ==
  [][CallFailsEquality =>
       /\ serialLog # <<>>
       /\ attempts'[Len(attempts')].head = Head(serialLog)
       /\ serialLog' = Tail(serialLog)
       /\ Len(serialLog') = Len(serialLog) - 1
       /\ consumed' = consumed + 1
       /\ runMessageLog' = runMessageLog
       /\ tasks' = tasks
       /\ next' = next
       /\ retTrace' = retTrace
       /\ phase' = "failed"
       /\ raised' # ""]_vars

\* the second call of a replay failed the comparison after the first had
\* returned and armed a task
C33_Witness ==
  /\ phase = "failed"
  /\ Len(attempts) = 2
  /\ ~attempts[2].ok
  /\ HasType(attempts[2].head, "api_message")
  /\ Len(runMessageLog) = 1
  /\ tasks = 1
  /\ consumed = 3
  /\ serialLog # <<>>
  /\ serialLog = SubSeq(source, 4, Len(source))

\* the Calls of l before position k that have no CallReturn before k
OpenCalls(l, k) ==
  {i \in 1..(k - 1) :
     /\ IsInstance(l[i], "api_message")
     /\ ~\E j \in (i + 1)..(k - 1) :
          IsInstance(l[j], "api_message_return") /\ l[j].apimessage.oid = l[i].oid}

\* C34: while and after a Recorder records an API whose methods do not throw,
\* Calls and CallReturns of its log are nested: each CallReturn is the return
\* of the latest Call before it that had no CallReturn yet, it names exactly
\* one Call, no Call has two CallReturns; encoded, the CallReturn carries the
\* index of that Call among the Calls
C34_ProperlyNested ==
  /\ \A k \in 1..Len(log) :
       IsInstance(log[k], "api_message_return") =>
         /\ OpenCalls(log, k) # {}
         /\ log[k].apimessage = log[Max(OpenCalls(log, k))]
         /\ Cardinality({i \in 1..Len(log) :
                           /\ IsInstance(log[i], "api_message")
                           /\ log[i].oid = log[k].apimessage.oid}) = 1
         /\ Cardinality({j \in 1..Len(log) :
                           /\ IsInstance(log[j], "api_message_return")
                           /\ log[j].apimessage.oid = log[k].apimessage.oid}) = 1
         /\ ApiMessageReturnSerialize(log[k], apiMessages(log)).ok
         /\ ApiMessageReturnSerialize(log[k], apiMessages(log)).val.from_api_message
              = Len(apiMessages(SubSeq(log, 1, Max(OpenCalls(log, k)) - 1)))
  /\ (Replayed /\ deviation.kind # "swap" /\ Len(source) = Len(log)) =>
       \A k \in 1..Len(source) :
         IsInstance(log[k], "api_message_return") =>
           /\ HasType(source[k], "api_message_return")
           /\ source[k].from_api_message
                = CallsBefore(source, Max(OpenCalls(log, k)))

\* the Recorder has just logged the CallReturn of a Call inside which a
\* callback made a Call that returned before
C34_Witness ==
  /\ phase = "record"
  /\ log # <<>>
  /\ IsInstance(log[Len(log)], "api_message_return")
  /\ \E j \in (Max(OpenCalls(log, Len(log))) + 1)..(Len(log) - 1) :
       /\ IsInstance(log[j], "api_message_return")
       /\ CallAt(log, log[j].apimessage.oid) > Max(OpenCalls(log, Len(log)))
  /\ Len(apiMessages(log)) >= 3
\* a step of the replay leaves the residual Log alone or takes its head off,
\* and the list of replayed Calls grows by one Call at most, in a step that
\* takes a Call off the residual Log
HeadOnly ==
  /\ serialLog' = serialLog \/ (serialLog # <<>> /\ serialLog' = Tail(serialLog))
  /\ \/ runMessageLog' = runMessageLog
     \/ /\ serialLog # <<>>
        /\ HasType(Head(serialLog), "api_message")
        /\ serialLog' = Tail(serialLog)
        /\ Len(runMessageLog') = Len(runMessageLog) + 1
        /\ SubSeq(runMessageLog', 1, Len(runMessageLog)) = runMessageLog
        /\ IsInstance(runMessageLog'[Len(runMessageLog')], "api_message")

\* C35: the residual Log of a Checker (the constructor did not throw) always
\* is a suffix of the event list the Checker was made of, the events removed so far being the prefix: a
\* replayed call or a deferred task only takes events off the head; and the
\* list of replayed Calls is never longer than the number of Calls removed
C35_ResidualIsSuffix ==
  /\ []((Replayed /\ ~ConstructionFailed) =>
          /\ consumed <= Len(source)
          /\ Len(serialLog) = Len(source) - consumed
          /\ \A k \in 1..Len(serialLog) : serialLog[k] = source[consumed + k]
          /\ Len(runMessageLog) <= CallsBefore(source, consumed + 1))
  /\ [][phase = "replay" => HeadOnly]_vars

\* a replay in which a deferred task took a CallbackInvocation off the head
\* and a later call took a Call off and failed: one Call more is removed than
\* replayed, and events are left
C35_Witness ==
  /\ phase = "failed"
  /\ consumed >= 4
  /\ serialLog # <<>>
  /\ \E c \in 1..Len(cbTrace) : cbTrace[c].ctx = "task"
  /\ Len(runMessageLog) >= 1
  /\ Len(runMessageLog) < CallsBefore(source, consumed + 1)

====
